---- MODULE Spec2Model ----
(***************************************************************************)
(* Live reconciliation layer of the expense tracker's Dashboard            *)
(* (src/src/components/Dashboard.jsx): the in-memory expense collection    *)
(* fed by bulk loads (loadRange), 'expense-added' optimistic inserts and   *)
(* realtime INSERT/UPDATE/DELETE notifications, against the record store   *)
(* the queries run on.                                                     *)
(*                                                                         *)
(* Time is counted in ticks; a calendar day d covers the ticks             *)
(* d*TicksPerDay .. d*TicksPerDay + TicksPerDay - 1, so the first tick of  *)
(* a day is its 00:00:00.000 UTC instant and the last tick its             *)
(* 23:59:59.999 UTC instant.                                               *)
(***************************************************************************)
EXTENDS Integers, Sequences, FiniteSets, TLC

\* ------------------------------------------------------------- bounds
MaxId == 2        \* identifiers the store hands out: 1..MaxId
MaxSteps == 3     \* user actions and store mutations in one behaviour

\* ------------------------------------------------------ program values
NoTrip == 0       \* trip = null / trip_id IS NULL: the casual context
Limit == 1000     \* .limit(1000)
CurrentUser == "u1"
OtherUser == "u2"

Ids == 1..MaxId
Days == {0, 1}
DayTicks == {0, 1}     \* the instants of a day: its first and its last
TicksPerDay == Cardinality(DayTicks)
Times == {d * TicksPerDay + k : d \in Days, k \in DayTicks}
TripIds == {1, 2}
Contexts == {NoTrip} \cup TripIds
Amounts == {1, 2}
NoAlert == ""

\* the calendar: months of two days each, the first and the last
Months == {0, 1, 2}
MonthDays == {0, 1}
DaysPerMonth == Cardinality(MonthDays)
CalendarDays == {m * DaysPerMonth + k : m \in Months, k \in MonthDays}
CalendarTimes == {d * TicksPerDay + k : d \in CalendarDays, k \in DayTicks}

\* `${year}-${month}` of a date, as the number of its month
MonthOf(day) == day \div DaysPerMonth

StartIso(day) == day * TicksPerDay
EndIso(day) == day * TicksPerDay + (TicksPerDay - 1)

\* ------------------------------------------------------------ records
\* An expense row is a function from the column names it carries to values.
Row(id, uid, tripId, date, amount, note) ==
    [id |-> id, user_id |-> uid, trip_id |-> tripId, date |-> date,
     amount |-> amount, note |-> note]

\* the modelled columns of loadRange's select list (user_id is not selected)
SelectCols == {"id", "amount", "note", "date", "trip_id"}

Restrict(r, cols) == [f \in (DOMAIN r) \cap cols |-> r[f]]

\* { ...old, ...new }
Merge(old, new) ==
    [f \in (DOMAIN old) \cup (DOMAIN new) |-> IF f \in DOMAIN new THEN new[f] ELSE old[f]]

SeqIds(s) == {s[i].id : i \in DOMAIN s}
HasId(s, id) == \E i \in DOMAIN s : s[i].id = id

RECURSIVE FilterOut(_, _)
\* prev.filter(r => r.id !== id)
FilterOut(s, id) ==
    IF s = <<>> THEN <<>>
    ELSE IF Head(s).id = id THEN FilterOut(Tail(s), id)
    ELSE <<Head(s)>> \o FilterOut(Tail(s), id)

\* prev.map(r => r.id === id ? { ...r, ...fields } : r)
MapMerge(s, id, fields) ==
    [i \in DOMAIN s |-> IF s[i].id = id THEN Merge(s[i], fields) ELSE s[i]]

\* ------------------------------------------------------- record store
\* .order('date', { ascending: false }); rows of equal date by identifier
Before(r, q) == r.date > q.date \/ (r.date = q.date /\ r.id <= q.id)

RECURSIVE SortDesc(_)
SortDesc(S) ==
    IF S = {} THEN <<>>
    ELSE LET m == CHOOSE r \in S : \A q \in S : Before(r, q)
         IN <<m>> \o SortDesc(S \ {m})

Min(a, b) == IF a <= b THEN a ELSE b

\* the row filter of loadRange's query: owner, inclusive date bounds, context
Matches(r, uid, tripId, sDay, eDay) ==
    /\ r.user_id = uid
    /\ r.date >= StartIso(sDay)
    /\ r.date <= EndIso(eDay)
    /\ IF tripId = NoTrip THEN r.trip_id = NoTrip ELSE r.trip_id = tripId

\* the data loadRange's query returns on success
QueryExpenses(st, uid, tripId, sDay, eDay) ==
    LET hit == {r \in st : Matches(r, uid, tripId, sDay, eDay)}
        sorted == SortDesc(hit)
        cut == SubSeq(sorted, 1, Min(Len(sorted), Limit))
    IN [i \in DOMAIN cut |-> Restrict(cut[i], SelectCols)]

\* --------------------------------------------------- timestamp strings
\* The realtime handlers compare the payload's timestamp with the range
\* references as strings (newIso >= startIsoRef.current).  A string is a
\* sequence of characters, ordered as JavaScript orders strings: by the first
\* differing code unit, a proper prefix first.  The year, equal in all strings
\* here, is left out.
VARIABLE wire     \* how the server renders a timestamp in the rows it sends

\* the characters used, in code-unit order
Ascii == <<"+", "-", ".", "0", "1", "2", "3", "5", "8", "9", ":", "T", "Z">>
Ord(c) == CHOOSE i \in DOMAIN Ascii : Ascii[i] = c

RECURSIVE StrLess(_, _)
StrLess(a, b) ==
    IF b = <<>> THEN FALSE
    ELSE IF a = <<>> THEN TRUE
    ELSE IF Head(a) = Head(b) THEN StrLess(Tail(a), Tail(b))
    ELSE Ord(Head(a)) < Ord(Head(b))

\* a <= b on strings
StrLeq(a, b) == a = b \/ StrLess(a, b)

\* month and day-of-month of a day, clock and milliseconds of a day's instants
MonthChars == [m \in Months |-> IF m = 0 THEN <<"0", "1">> ELSE IF m = 1 THEN <<"0", "2">> ELSE <<"0", "3">>]
DayChars ==
    [d \in CalendarDays |->
        MonthChars[MonthOf(d)] \o <<"-">>
        \o (IF d % DaysPerMonth = 0 THEN <<"0", "1">> ELSE <<"2", "8">>)]
ClockChars ==
    [k \in DayTicks |-> IF k = 0 THEN <<"0", "0", ":", "0", "0", ":", "0", "0">>
                        ELSE <<"2", "3", ":", "5", "9", ":", "5", "9">>]
MilliChars == [k \in DayTicks |-> IF k = 0 THEN <<"0", "0", "0">> ELSE <<"9", "9", "9">>]

RECURSIVE TrimZeros(_)
TrimZeros(s) ==
    IF s # <<>> /\ s[Len(s)] = "0" THEN TrimZeros(SubSeq(s, 1, Len(s) - 1)) ELSE s

\* Date.prototype.toISOString(): always three fraction digits and Z
ToISOString ==
    [t \in CalendarTimes |->
        DayChars[t \div TicksPerDay] \o <<"T">> \o ClockChars[t % TicksPerDay]
        \o <<".">> \o MilliChars[t % TicksPerDay] \o <<"Z">>]

\* a timestamptz as PostgreSQL prints it: the fraction without trailing
\* zeros, none at all for a whole second, and a numeric offset
PgString ==
    [t \in CalendarTimes |->
        LET frac == TrimZeros(MilliChars[t % TicksPerDay])
        IN DayChars[t \div TicksPerDay] \o <<"T">> \o ClockChars[t % TicksPerDay]
           \o (IF frac = <<>> THEN <<>> ELSE <<".">> \o frac)
           \o <<"+", "0", "0", ":", "0", "0">>]

Wires == {"iso", "pg"}

\* the date string of a row the server sends
WireString(t) == IF wire = "iso" THEN ToISOString[t] ELSE PgString[t]

\* newIso >= startIsoRef.current && newIso <= endIsoRef.current
IsoBetween(date, sRef, eRef) ==
    /\ StrLeq(ToISOString[sRef], WireString(date))
    /\ StrLeq(WireString(date), ToISOString[eRef])

\* ------------------------------------------------------ faulty variants
\* Handlers with one check or branch left out; each property below that the
\* handlers satisfy is violated by one of them.
\* handleAdded without the duplicate check
HandleAddedNoDedupe(prev, d, uid, tripId, sRef, eRef) ==
    IF d.user_id # uid THEN prev
    ELSE IF tripId # NoTrip /\ d.trip_id # tripId THEN prev
    ELSE IF tripId = NoTrip /\ d.trip_id # NoTrip THEN prev
    ELSE IF d.date < sRef \/ d.date > eRef THEN prev
    ELSE <<d>> \o prev

\* handleAdded without the owner check
HandleAddedAnyOwner(prev, d, uid, tripId, sRef, eRef) ==
    IF tripId # NoTrip /\ d.trip_id # tripId THEN prev
    ELSE IF tripId = NoTrip /\ d.trip_id # NoTrip THEN prev
    ELSE IF d.date < sRef \/ d.date > eRef THEN prev
    ELSE IF HasId(prev, d.id) THEN prev
    ELSE <<d>> \o prev

\* INSERT handler without the duplicate check
OnInsertNoDedupe(prev, new, sRef, eRef) ==
    IF IsoBetween(new.date, sRef, eRef) THEN <<new>> \o prev ELSE prev

\* UPDATE handler without the eviction branch
OnUpdateNoEvict(prev, new, sRef, eRef) == MapMerge(prev, new.id, new)

\* ------------------------------------------------- collection handlers
\* handleAdded: the 'expense-added' listener
HandleAdded(prev, d, uid, tripId, sRef, eRef) ==
    IF d.user_id # uid THEN prev
    ELSE IF tripId # NoTrip /\ d.trip_id # tripId THEN prev
    ELSE IF tripId = NoTrip /\ d.trip_id # NoTrip THEN prev
    ELSE IF d.date < sRef \/ d.date > eRef THEN prev
    ELSE IF HasId(prev, d.id) THEN prev
    ELSE <<d>> \o prev

\* postgres_changes INSERT handler
OnInsert(prev, new, sRef, eRef) ==
    IF IsoBetween(new.date, sRef, eRef)
    THEN IF HasId(prev, new.id) THEN prev ELSE <<new>> \o prev
    ELSE prev

\* postgres_changes UPDATE handler; a payload without a date compares as
\* out of range (undefined >= string is false)
OnUpdate(prev, new, sRef, eRef) ==
    LET isInRange == "date" \in DOMAIN new /\ IsoBetween(new.date, sRef, eRef)
    IN IF ~isInRange THEN FilterOut(prev, new.id)
       ELSE MapMerge(prev, new.id, new)

\* postgres_changes DELETE handler
OnDelete(prev, old) == FilterOut(prev, old.id)

\* one notification of the channel, dispatched to its handler
ApplyNotification(prev, n, sRef, eRef) ==
    IF n.event = "INSERT" THEN OnInsert(prev, n.row, sRef, eRef)
    ELSE IF n.event = "UPDATE" THEN OnUpdate(prev, n.row, sRef, eRef)
    ELSE OnDelete(prev, n.row)

\* -------------------------------------------------------------- state
VARIABLES
    store,        \* the expenses table: a set of rows, one per identifier
    nextId,       \* the next identifier the store assigns
    steps,        \* user actions and store mutations so far
    mounted,      \* a Dashboard is mounted
    trip,         \* its trip prop (NoTrip: casual)
    startDay,     \* its startDateStr prop, as a day
    endDay,       \* its endDateStr prop, as a day
    startIsoRef,  \* startIsoRef.current
    endIsoRef,    \* endIsoRef.current
    expenses,     \* the expenses state: the collection
    loading,      \* the loading state
    loads,        \* loadRange calls awaiting their query, by call
    channels,     \* subscribed realtime channels, each with its undelivered events
    channelRef,   \* channelRef.current (NoChannel: null)
    acks,         \* inserted rows whose insert response has not reached ExpenseInput
    loadFailed,   \* history: the bulk load applied last to this Dashboard had failed
    last          \* history: the step taken last, its input, the alert it raised

vars == <<store, nextId, steps, mounted, trip, startDay, endDay, startIsoRef, endIsoRef,
          expenses, loading, loads, channels, channelRef, acks, loadFailed, last, wire>>

VARIABLES
    categoriesTable,  \* the categories table: identifier -> name
    tripsTable,       \* the trips table: a set of rows
    budgets,          \* the budgets table: a set of rows
    categories,       \* Dashboard: the categories state
    grouped,          \* Dashboard: the grouped state, group key -> group
    lendedTotal,      \* Dashboard: the lendedTotal state
    borrowedTotal,    \* Dashboard: the borrowedTotal state
    totalBudget,      \* Dashboard: the totalBudget state
    trips,            \* TripsTab: the trips state, the cards with their summary
    tripExpenses,     \* TripsTab: the tripExpenses state, trip -> rows
    tabCategories,    \* TripsTab: the categories state, identifier -> name
    message,          \* TripsTab: the message state
    calls             \* asynchronous handler calls in flight, by call

\* the state of App's and ExpenseInput's forms and the Dashboard's selection,
\* as one record with the fields named below
VARIABLE ui

startDateStr == ui.startDateStr          \* App: the startDateStr state, a day or NoDate
endDateStr == ui.endDateStr              \* App: the endDateStr state, a day or NoDate
hasTrips == ui.hasTrips                  \* App: the hasTrips state
today == ui.today                        \* the day the clock shows
selectedExpenses == ui.selectedExpenses  \* Dashboard: the selectedExpenses state
inputText == ui.inputText                \* ExpenseInput: the text state
inputCategories == ui.inputCategories    \* ExpenseInput: the categories state
inputMessage == ui.inputMessage          \* ExpenseInput: the message state

Ui(s, e, found, now, selected, text, cats, msg) ==
    [startDateStr |-> s, endDateStr |-> e, hasTrips |-> found, today |-> now,
     selectedExpenses |-> selected, inputText |-> text, inputCategories |-> cats,
     inputMessage |-> msg]

tableVars == <<categoriesTable, tripsTable, budgets>>
dashVars == <<categories, grouped, lendedTotal, borrowedTotal, totalBudget>>
tabVars == <<trips, tripExpenses, tabCategories, message>>
formVars == <<ui>>

\* the state no step of the live reconciliation writes
idleVars == <<wire, tableVars, dashVars, tabVars, calls, formVars>>

allVars == <<vars, tableVars, dashVars, tabVars, calls, formVars>>

NoDate == 0 - 1   \* '': the value of a cleared date input

\* App and ExpenseInput before anything has run, on the first day
FormIdle == ui = Ui(0, 1, FALSE, 0, {}, <<>>, <<>>, "")

\* the tables and the two components before anything has run
IdleState ==
    /\ categoriesTable = <<>>
    /\ tripsTable = {}
    /\ budgets = {}
    /\ categories = <<>>
    /\ grouped = <<>>
    /\ lendedTotal = 0
    /\ borrowedTotal = 0
    /\ totalBudget = 0
    /\ trips = <<>>
    /\ tripExpenses = <<>>
    /\ tabCategories = <<>>
    /\ message = ""
    /\ calls = <<>>
    /\ FormIdle

storeVars == <<store, nextId>>
viewVars == <<mounted, trip, startDay, endDay, startIsoRef, endIsoRef>>

NoChannel == 0
ChanIds == {1, 2}
LoadIds == {1, 2}

Step(op, info) == [op |-> op, info |-> info, alert |-> NoAlert]
None == [x |-> 0]

Without(f, k) == [x \in (DOMAIN f) \ {k} |-> f[x]]

\* ------------------------------------------------ realtime subscription
\* the channel's filter: user_id=eq.<user>,trip_id=eq.<trip> (or is.null)
ChannelFilter(ch, row) == row.user_id = CurrentUser /\ row.trip_id = ch.trip

\* the store pushes a change of `row` to every subscribed channel it passes
Emit(chs, event, row, payload) ==
    [c \in DOMAIN chs |->
        IF ChannelFilter(chs[c], row)
        THEN [chs[c] EXCEPT !.q = Append(@, [event |-> event, row |-> payload])]
        ELSE chs[c]]

\* faulty variant: the cleanup leaves the channel subscribed
UnsubscribedNever(chs, ref) == chs

\* the subscription effect's cleanup: channelRef.current.unsubscribe()
Unsubscribed(chs, ref) == IF ref \in DOMAIN chs THEN Without(chs, ref) ELSE chs

FreshChannel(chs) == CHOOSE c \in ChanIds \ DOMAIN chs : \A d \in ChanIds \ DOMAIN chs : c <= d

\* the subscription effect's body: supabase.channel(...).on(...).subscribe()
Subscribed(chs, tripId) == (FreshChannel(chs) :> [trip |-> tripId, q |-> <<>>]) @@ chs

\* events of the channel in channelRef that were pushed and not yet delivered
Undelivered(chs, ref) == IF ref \in DOMAIN chs THEN Len(chs[ref].q) ELSE 0

\* ------------------------------------------------------------ loadRange
FreshLoad == CHOOSE l \in LoadIds \ DOMAIN loads : \A k \in LoadIds \ DOMAIN loads : l <= k

\* loadRange up to its await: the query is built from the props of this render
IssueLoad(ls, lid, tripId, sDay, eDay) ==
    (lid :> [trip |-> tripId, sDay |-> sDay, eDay |-> eDay,
             phase |-> "sent", error |-> FALSE, data |-> <<>>]) @@ ls

\* loadRange after its await: `mounted` is a local that is never cleared, so
\* the result is applied whatever the props have become
LoadResult(prev, l) == IF l.error THEN <<>> ELSE l.data

\* the load was issued for another context or range than the current one
StaleLoad(l) == <<l.trip, l.sDay, l.eDay>> # <<trip, startDay, endDay>>

\* ----------------------------------------------------------------- Init
Init ==
    /\ store = {}
    /\ nextId = 1
    /\ steps = 0
    /\ mounted = FALSE
    /\ trip = NoTrip
    /\ startDay = 0
    /\ endDay = 0
    /\ startIsoRef = 0
    /\ endIsoRef = 0
    /\ expenses = <<>>
    /\ loading = FALSE
    /\ loads = <<>>
    /\ channels = <<>>
    /\ channelRef = NoChannel
    /\ acks = {}
    /\ loadFailed = FALSE
    /\ last = Step("init", None)
    /\ wire = "iso"
    /\ IdleState

\* -------------------------------------------------------- view lifecycle
\* App renders a Dashboard: first render, then the effects in source order
Mount(t, s, e) ==
    /\ ~mounted
    /\ steps < MaxSteps
    /\ steps' = steps + 1
    /\ mounted' = TRUE
    /\ trip' = t
    /\ startDay' = s
    /\ endDay' = e
    /\ startIsoRef' = StartIso(s)
    /\ endIsoRef' = EndIso(e)
    /\ expenses' = <<>>
    /\ loading' = TRUE
    /\ loads' = IssueLoad(<<>>, 1, t, s, e)
    /\ channels' = Subscribed(channels, t)
    /\ channelRef' = FreshChannel(channels)
    /\ loadFailed' = FALSE
    /\ last' = Step("mount", None)
    /\ UNCHANGED <<storeVars, acks>>
    /\ UNCHANGED idleVars

\* the date inputs or the selected trip change under a mounted Dashboard: the
\* effects keyed on [user.id, trip, startDateStr, endDateStr] run again
ChangeView(t, s, e) ==
    /\ mounted
    /\ steps < MaxSteps
    /\ <<t, s, e>> # <<trip, startDay, endDay>>
    /\ (t = trip \/ (t # NoTrip /\ trip # NoTrip))
    /\ LoadIds \ DOMAIN loads # {}
    /\ ChanIds \ DOMAIN Unsubscribed(channels, channelRef) # {}
    /\ steps' = steps + 1
    /\ trip' = t
    /\ startDay' = s
    /\ endDay' = e
    /\ startIsoRef' = StartIso(s)
    /\ endIsoRef' = EndIso(e)
    /\ loading' = TRUE
    /\ loads' = IssueLoad(loads, FreshLoad, t, s, e)
    /\ channels' = Subscribed(Unsubscribed(channels, channelRef), t)
    /\ channelRef' = FreshChannel(Unsubscribed(channels, channelRef))
    /\ last' = Step("change", [dropped |-> Undelivered(channels, channelRef)])
    /\ UNCHANGED <<storeVars, mounted, expenses, acks, loadFailed>>
    /\ UNCHANGED idleVars

\* App stops rendering the Dashboard (tab switch, trip deselected): effect
\* cleanups run, the state is dropped, later setState calls are ignored
Unmount ==
    /\ mounted
    /\ steps < MaxSteps
    /\ steps' = steps + 1
    /\ mounted' = FALSE
    /\ trip' = NoTrip
    /\ startDay' = 0
    /\ endDay' = 0
    /\ startIsoRef' = 0
    /\ endIsoRef' = 0
    /\ expenses' = <<>>
    /\ loading' = FALSE
    /\ loads' = <<>>
    /\ channels' = Unsubscribed(channels, channelRef)
    /\ channelRef' = NoChannel
    /\ loadFailed' = FALSE
    /\ last' = Step("unmount", [dropped |-> Undelivered(channels, channelRef)])
    /\ UNCHANGED <<storeVars, acks>>
    /\ UNCHANGED idleVars

\* ------------------------------------------------------------ bulk load
\* the store evaluates a load's query, or fails it
AnswerLoad(lid, err) ==
    /\ lid \in DOMAIN loads
    /\ loads[lid].phase = "sent"
    /\ LET l == loads[lid]
           rows == IF err THEN <<>>
                   ELSE QueryExpenses(store, CurrentUser, l.trip, l.sDay, l.eDay)
       IN loads' = [loads EXCEPT ![lid] =
                        [l EXCEPT !.phase = "done", !.error = err, !.data = rows]]
    /\ last' = Step("answer", None)
    /\ UNCHANGED <<storeVars, steps, viewVars, expenses, loading, channels, channelRef,
                   acks, loadFailed>>
    /\ UNCHANGED idleVars

\* the awaited query of a loadRange call resolves
DeliverLoad(lid) ==
    /\ lid \in DOMAIN loads
    /\ loads[lid].phase = "done"
    /\ expenses' = LoadResult(expenses, loads[lid])
    /\ loading' = FALSE
    /\ loads' = Without(loads, lid)
    /\ loadFailed' = loads[lid].error
    /\ last' = Step(IF loads[lid].error THEN "loadError" ELSE "loadOk",
                    [stale |-> StaleLoad(loads[lid])])
    /\ UNCHANGED <<storeVars, steps, viewVars, channels, channelRef, acks>>
    /\ UNCHANGED idleVars

\* ------------------------------------------------------ store mutations
StoreRow(id) == CHOOSE r \in store : r.id = id
StoreIds == {r.id : r \in store}

\* ExpenseInput.handleSubmit up to its await: the insert reaches the store,
\* which assigns the identifier and pushes the INSERT
SubmitExpense(date, amount) ==
    /\ mounted
    /\ nextId <= MaxId
    /\ steps < MaxSteps
    /\ LET row == Row(nextId, CurrentUser, trip, date, amount, "a")
       IN /\ store' = store \cup {row}
          /\ channels' = Emit(channels, "INSERT", row, row)
          /\ acks' = acks \cup {row}
    /\ nextId' = nextId + 1
    /\ steps' = steps + 1
    /\ last' = Step("submit", None)
    /\ UNCHANGED <<viewVars, expenses, loading, loads, channelRef, loadFailed>>
    /\ UNCHANGED idleVars

\* ExpenseInput.handleSubmit after its await: the 'expense-added' event is
\* dispatched with the inserted row; a mounted Dashboard's listener hears it
AckInsert(row) ==
    /\ row \in acks
    /\ acks' = acks \ {row}
    /\ expenses' = IF mounted
                   THEN HandleAdded(expenses, row, CurrentUser, trip, startIsoRef, endIsoRef)
                   ELSE expenses
    /\ last' = Step("added", [heard |-> mounted])
    /\ UNCHANGED <<storeVars, steps, viewVars, loading, loads, channels, channelRef, loadFailed>>
    /\ UNCHANGED idleVars

\* a row of the owner is updated in the store (by submitEdit here or in
\* another session); the store pushes the UPDATE with the whole new row
StoreUpdate(id, date, amount) ==
    /\ id \in StoreIds
    /\ steps < MaxSteps
    /\ LET row == Merge(StoreRow(id), [date |-> date, amount |-> amount])
       IN /\ store' = (store \ {StoreRow(id)}) \cup {row}
          /\ channels' = Emit(channels, "UPDATE", row, row)
    /\ steps' = steps + 1
    /\ last' = Step("update", None)
    /\ UNCHANGED <<nextId, viewVars, expenses, loading, loads, channelRef, acks, loadFailed>>
    /\ UNCHANGED idleVars

\* a row of the owner is deleted from the store; the pushed DELETE carries
\* the old row's primary key
StoreDelete(id) ==
    /\ id \in StoreIds
    /\ steps < MaxSteps
    /\ store' = store \ {StoreRow(id)}
    /\ channels' = Emit(channels, "DELETE", StoreRow(id), [id |-> id])
    /\ steps' = steps + 1
    /\ last' = Step("delete", None)
    /\ UNCHANGED <<nextId, viewVars, expenses, loading, loads, channelRef, acks, loadFailed>>
    /\ UNCHANGED idleVars

\* ------------------------------------------------------- notifications
\* a subscribed channel hands its oldest undelivered event to its handler
DeliverNotification(c) ==
    /\ c \in DOMAIN channels
    /\ channels[c].q # <<>>
    /\ LET n == Head(channels[c].q)
       IN /\ expenses' = ApplyNotification(expenses, n, startIsoRef, endIsoRef)
          /\ last' = Step("notify", [chan |-> c, n |-> n, held |-> HasId(expenses, n.row.id)])
    /\ channels' = [channels EXCEPT ![c].q = Tail(@)]
    /\ UNCHANGED <<storeVars, steps, viewVars, loading, loads, channelRef, acks, loadFailed>>
    /\ UNCHANGED idleVars

\* ----------------------------------------------------- specification
OtherAmount(a) == CHOOSE b \in Amounts : b # a

Next ==
    \/ \E t \in Contexts, d \in Days : Mount(t, d, d)
    \/ \E t \in Contexts, d \in Days : ChangeView(t, d, d)
    \/ Unmount
    \/ \E lid \in LoadIds, err \in BOOLEAN : AnswerLoad(lid, err)
    \/ \E lid \in LoadIds : DeliverLoad(lid)
    \/ \E d \in Times : SubmitExpense(d, 1)
    \/ \E row \in acks : AckInsert(row)
    \/ \E id \in Ids, d \in Times : StoreUpdate(id, d, OtherAmount(StoreRow(id).amount))
    \/ \E id \in Ids : StoreDelete(id)
    \/ \E c \in ChanIds : DeliverNotification(c)

Spec == Init /\ [][Next]_allVars

\* ------------------------------------------- handlers on arbitrary input
\* The collection handlers are functions of the collection, the range
\* references and the event.  The second specification draws a Dashboard
\* with a collection it can hold and applies one handler to one event of a
\* bounded set, whatever the store and the network would deliver.
HIds == {1, 2}
HContexts == {NoTrip, 1}     \* the contexts of the drawn Dashboard
HRanges == {r \in Days \X Days : r[1] <= r[2]}

FullRows(ids, users, tripIds, dates, amounts) ==
    {Row(i, u, t, d, a, "a") : i \in ids, u \in users, t \in tripIds, d \in dates, a \in amounts}

\* rows an 'expense-added' event may carry: any owner, any context
AddedInputs == FullRows(HIds, {CurrentUser, OtherUser}, Contexts, Times, Amounts)

\* rows the channel of context t pushes: they pass the channel's filter
PushedRows ==
    [t \in Contexts |-> FullRows(HIds, {CurrentUser}, {t}, Times, Amounts)]

\* an UPDATE payload is the whole row, or the row without its unchanged text
UpdateInputs ==
    [t \in Contexts |->
        PushedRows[t] \cup {Restrict(r, (DOMAIN r) \ {"note"}) : r \in PushedRows[t]}]

NotificationInputs ==
    [t \in Contexts |->
        {[event |-> "INSERT", row |-> r] : r \in PushedRows[t]}
        \cup {[event |-> "UPDATE", row |-> r] : r \in UpdateInputs[t]}
        \cup {[event |-> "DELETE", row |-> [id |-> i]] : i \in HIds}]

\* rows a collection of context t holds: prepended whole, or as loadRange
\* selected them
HeldRows ==
    [t \in Contexts |->
        PushedRows[t] \cup {Restrict(r, SelectCols) : r \in PushedRows[t]}]

\* collections of context t: any order, one record per identifier
Collections ==
    [t \in Contexts |->
        {<<>>} \cup {<<r>> : r \in HeldRows[t]}
        \cup {<<p[1], p[2]>> : p \in {x \in HeldRows[t] \X HeldRows[t] : x[1].id # x[2].id}}]

\* the event a handler was given and what it did to the collection, for the
\* history variable
Effect(op, event, row) ==
    [op |-> op, alert |-> NoAlert,
     info |-> [event |-> event, row |-> row,
               held |-> HasId(expenses, row.id),
               delta |-> Len(expenses') - Len(expenses)]]

\* a mounted, loaded Dashboard
HInit ==
    \E t \in HContexts, r \in HRanges :
        /\ store = {}
        /\ nextId = 1
        /\ steps = 0
        /\ mounted = TRUE
        /\ trip = t
        /\ startDay = r[1]
        /\ endDay = r[2]
        /\ startIsoRef = StartIso(r[1])
        /\ endIsoRef = EndIso(r[2])
        /\ expenses \in Collections[t]
        /\ loading = FALSE
        /\ loads = <<>>
        /\ channels = Subscribed(<<>>, t)
        /\ channelRef = FreshChannel(<<>>)
        /\ acks = {}
        /\ loadFailed = FALSE
        /\ last = Step("mount", None)
        /\ wire \in Wires
        /\ IdleState

handlerFrame == <<store, nextId, steps, viewVars, loading, loads, channels, channelRef,
                  acks, loadFailed, idleVars>>

\* an 'expense-added' event carrying d is dispatched
HAdded(d) ==
    /\ last.op = "mount"
    /\ expenses' = HandleAdded(expenses, d, CurrentUser, trip, startIsoRef, endIsoRef)
    /\ last' = Effect("added", "", d)
    /\ UNCHANGED handlerFrame

\* the channel delivers notification n
HNotify(n) ==
    /\ last.op = "mount"
    /\ expenses' = ApplyNotification(expenses, n, startIsoRef, endIsoRef)
    /\ last' = Effect("notify", n.event, n.row)
    /\ UNCHANGED handlerFrame

HNext ==
    \/ \E d \in AddedInputs : HAdded(d)
    \/ \E n \in NotificationInputs[trip] : HNotify(n)

HandlerSpec == HInit /\ [][HNext]_allVars

\* ============================================================ properties
\* ------------------------------------------------ convergence (Spec)
\* nothing is in flight: no load, no notification, no insert response
Quiescent ==
    /\ mounted
    /\ loads = <<>>
    /\ acks = {}
    /\ \A c \in DOMAIN channels : channels[c].q = <<>>

\* the store's rows of the current owner, context and range
Expected == {r \in store : Matches(r, CurrentUser, trip, startDay, endDay)}

\* the collection holds exactly the expected rows, with the store's values
Consistent ==
    /\ SeqIds(expenses) = {r.id : r \in Expected}
    /\ \A i, j \in DOMAIN expenses : expenses[i].id = expenses[j].id => i = j
    /\ \A i \in DOMAIN expenses :
          \A r \in Expected :
              r.id = expenses[i].id => \A f \in DOMAIN expenses[i] : expenses[i][f] = r[f]

\* C1: once every in-flight load and notification has been delivered (and
\* the last load did not fail), the collection equals the store's records of
\* the current owner, context and range.
C1_Converges == (Quiescent /\ ~loadFailed) => Consistent

C8_StaleDiscarded ==
    [][(last'.op \in {"loadOk", "loadError"} /\ last'.info.stale) => expenses' = expenses]_allVars

\* C9: a failed bulk load leaves the collection empty and the Dashboard in a
\* user-visible loading-error state.
C9_LoadErrorVisible ==
    last.op = "loadError" => (expenses = <<>> /\ last.alert # NoAlert)

InRange(date) == date >= StartIso(startDay) /\ date <= EndIso(endDay)

\* the records of s other than the one identified, in their order
Others(s, id) == SelectSeq(s, LAMBDA r : r.id # id)

\* C2: applying the same INSERT, UPDATE or DELETE notification a second time
\* leaves the collection as the first application left it.
C2_Idempotent ==
    [][last'.op = "notify"
       => ApplyNotification(expenses', [event |-> last'.info.event, row |-> last'.info.row],
                            startIsoRef', endIsoRef') = expenses']_allVars

\* an INSERT notification for a record not held was applied and prepended it
C2_Witness ==
    /\ last.op = "notify"
    /\ last.info.event = "INSERT"
    /\ ~last.info.held
    /\ last.info.delta = 1

\* the row the store holds once the update behind payload `new` is applied
StoredAfter(new) == Merge(Row(new.id, CurrentUser, trip, new.date, 1, "a"), new)

\* C4: an UPDATE notification whose timestamp is out of range, for a held
\* record, removes that record and leaves the others as they were, and a
\* bulk load of the same range does not return the record.
C4_OutOfRangeUpdateEvicts ==
    [][(/\ last'.op = "notify"
        /\ last'.info.event = "UPDATE"
        /\ HasId(expenses, last'.info.row.id)
        /\ ~InRange(last'.info.row.date))
       => /\ expenses' = Others(expenses, last'.info.row.id)
          /\ ~HasId(QueryExpenses({StoredAfter(last'.info.row)}, CurrentUser, trip,
                                  startDay, endDay),
                    last'.info.row.id)]_allVars

\* an UPDATE evicted a held record and another record stayed
C4_Witness ==
    /\ last.op = "notify"
    /\ last.info.event = "UPDATE"
    /\ last.info.held
    /\ last.info.delta = -1
    /\ Len(expenses) = 1

\* C5: an UPDATE notification whose timestamp is in range, for a held
\* record, keeps the record at its position with the payload's fields
\* overwritten and the absent fields kept, and leaves the others unchanged.
\* (The handler decides the range on strings: see C11.)
C5_InRangeUpdateMerges ==
    [][(/\ last'.op = "notify"
        /\ last'.info.event = "UPDATE"
        /\ HasId(expenses, last'.info.row.id)
        /\ InRange(last'.info.row.date))
       => LET new == last'.info.row
          IN /\ Len(expenses') = Len(expenses)
             /\ \A i \in DOMAIN expenses :
                   IF expenses[i].id = new.id
                   THEN /\ DOMAIN expenses'[i] = (DOMAIN expenses[i]) \cup (DOMAIN new)
                        /\ \A f \in DOMAIN expenses'[i] :
                              expenses'[i][f] = IF f \in DOMAIN new THEN new[f]
                                                ELSE expenses[i][f]
                   ELSE expenses'[i] = expenses[i]]_allVars

\* the four conditions under which an 'expense-added' event is taken
Admitted(d) ==
    /\ d.user_id = CurrentUser
    /\ d.trip_id = trip
    /\ InRange(d.date)
    /\ ~HasId(expenses, d.id)

\* C6: an 'expense-added' event prepends its record exactly when the owner
\* is the current user, the trip is the Dashboard's context, the date is
\* within the bounds (inclusive) and the identifier is not held; otherwise
\* the collection is unchanged.
C6_AddedIffAdmitted ==
    [][last'.op = "added"
       => expenses' = IF Admitted(last'.info.row) THEN <<last'.info.row>> \o expenses
                      ELSE expenses]_allVars

\* an 'expense-added' event was taken and its record put before a held one
C6_Witness ==
    /\ last.op = "added"
    /\ last.info.delta = 1
    /\ Len(expenses) = 2
    /\ expenses[1] = last.info.row
    /\ expenses[1].date \in {startIsoRef, endIsoRef}

\* C7: the optimistic insert d and the server's INSERT n of the same record,
\* applied in either order, give the same collection, holding the record
\* once with the server's values.
C7_ServerWins ==
    \A d \in AddedInputs, n \in PushedRows[trip] :
        (/\ d.id = n.id
         /\ d.user_id = n.user_id
         /\ d.trip_id = n.trip_id
         /\ d.date = n.date
         /\ InRange(n.date)
         /\ ~HasId(expenses, n.id))
        => LET addedFirst == OnInsert(HandleAdded(expenses, d, CurrentUser, trip,
                                                  startIsoRef, endIsoRef),
                                      n, startIsoRef, endIsoRef)
               pushedFirst == HandleAdded(OnInsert(expenses, n, startIsoRef, endIsoRef),
                                          d, CurrentUser, trip, startIsoRef, endIsoRef)
           IN /\ addedFirst = pushedFirst
              /\ Cardinality({i \in DOMAIN addedFirst : addedFirst[i].id = n.id}) = 1
              /\ \A i \in DOMAIN addedFirst : addedFirst[i].id = n.id => addedFirst[i] = n

\* ------------------------------------------------ range membership
\* a row of the current owner and context timestamped t, as the server sends it
Probe(t) == Row(1, CurrentUser, trip, t, 1, "a")

\* C11: the bounds of the range are the first instant of its first day and
\* the last instant of its last day, membership is the closed interval, and
\* the bulk query, the 'expense-added' check and the pushed INSERT and UPDATE
\* checks all decide it the same way for every timestamp.
C11_SameClosedInterval ==
    /\ ToISOString[startIsoRef] = DayChars[startDay] \o <<"T">> \o ClockChars[0]
                                  \o <<".">> \o MilliChars[0] \o <<"Z">>
    /\ ToISOString[endIsoRef] = DayChars[endDay] \o <<"T">> \o ClockChars[1]
                                \o <<".">> \o MilliChars[1] \o <<"Z">>
    /\ \A t \in Times :
          LET inside == StartIso(startDay) <= t /\ t <= EndIso(endDay)
          IN /\ Matches(Probe(t), CurrentUser, trip, startDay, endDay) <=> inside
             /\ (HandleAdded(<<>>, Probe(t), CurrentUser, trip, startIsoRef, endIsoRef) # <<>>)
                   <=> inside
             /\ (OnInsert(<<>>, Probe(t), startIsoRef, endIsoRef) # <<>>) <=> inside
             /\ (OnUpdate(<<Probe(t)>>, Probe(t), startIsoRef, endIsoRef) # <<>>) <=> inside

\* ============================================================ aggregation
\* The totals the Dashboard and the trip cards show, computed from a
\* collection, the categories and the budget rows.
Kinds == {"expense", "borrowed", "lended"}
NoCategory == "null"            \* category_id IS NULL
CatIds == {"c1", "c2"}
Uncategorized == "uncategorized"

\* a row with the columns the aggregation reads
AggRow(id, tripId, kind, amount, cat) ==
    Merge(Row(id, CurrentUser, tripId, 0, amount, "a"), [kind |-> kind, category_id |-> cat])

RECURSIVE SumAmounts(_)
\* rows.reduce((sum, row) => sum + Number(row.amount || 0), 0)
SumAmounts(rows) ==
    IF rows = <<>> THEN 0 ELSE Head(rows).amount + SumAmounts(Tail(rows))

RECURSIVE SumRows(_)
\* the same sum over rows a query returned, whatever their order
SumRows(S) ==
    IF S = {} THEN 0 ELSE LET r == CHOOSE x \in S : TRUE IN r.amount + SumRows(S \ {r})

\* faulty variant: lended and borrowed rows are grouped like expenses
IsCategorisedAny(row) == TRUE

\* the grouping effect's else branch: the row goes to catExpenses
IsCategorised(row) == row.kind # "lended" /\ row.kind # "borrowed"

IsLended(row) == row.kind = "lended"
IsBorrowed(row) == row.kind = "borrowed"
IsExpense(row) == row.kind = "expense"

\* row.category_id || 'uncategorized'
GroupKey(row) == IF row.category_id = NoCategory THEN Uncategorized ELSE row.category_id

\* row.category_id ? (idToName[row.category_id] || 'Unknown') : 'Other'
GroupName(row, cats) ==
    IF row.category_id = NoCategory THEN "Other"
    ELSE IF row.category_id \in DOMAIN cats THEN cats[row.category_id]
    ELSE "Unknown"

\* the catMap the Dashboard's grouping effect builds
Grouped(exps, cats) ==
    LET catExpenses == SelectSeq(exps, IsCategorised)
        keys == {GroupKey(catExpenses[i]) : i \in DOMAIN catExpenses} \cup DOMAIN cats
        rowsOf(k) == SelectSeq(catExpenses, LAMBDA r : GroupKey(r) = k)
    IN [k \in keys |->
           [id |-> k,
            name |-> IF rowsOf(k) # <<>> THEN GroupName(Head(rowsOf(k)), cats) ELSE cats[k],
            total |-> SumAmounts(rowsOf(k)),
            rows |-> rowsOf(k)]]

RECURSIVE SumTotals(_, _)
SumTotals(g, keys) ==
    IF keys = {} THEN 0
    ELSE LET k == CHOOSE x \in keys : TRUE IN g[k].total + SumTotals(g, keys \ {k})

\* Object.values(grouped).reduce((s, g) => s + Number(g.total || 0), 0)
TotalSpent == SumTotals(grouped, DOMAIN grouped)

\* Number(totalBudget || 0) - Number(totalSpent || 0)
Balance == totalBudget - TotalSpent

\* a / b * 100, for the amounts used here, which b divides
Percent(a, b) == (a * 100) \div b

Hundred == 100

\* totalBudget > 0 ? (totalSpent / totalBudget) * 100 : 0, shown as "Progress: x%"
Progress == IF totalBudget > 0 THEN Percent(TotalSpent, totalBudget) ELSE 0

\* width: `${Math.min(progress, 100)}%`
ProgressBar == Min(Progress, Hundred)

\* ------------------------------------------------------- trip cards
RECURSIVE FirstKeys(_, _)
\* the keys of the grouped object, in insertion order
FirstKeys(exps, seen) ==
    IF exps = <<>> THEN <<>>
    ELSE IF GroupKey(Head(exps)) \in seen THEN FirstKeys(Tail(exps), seen)
    ELSE <<GroupKey(Head(exps))>> \o FirstKeys(Tail(exps), seen \cup {GroupKey(Head(exps))})

RECURSIVE InsertByTotal(_, _)
\* g goes before the first group of a smaller total
InsertByTotal(sorted, g) ==
    IF sorted = <<>> THEN <<g>>
    ELSE IF Head(sorted).total < g.total THEN <<g>> \o sorted
    ELSE <<Head(sorted)>> \o InsertByTotal(Tail(sorted), g)

RECURSIVE SortByTotal(_)
\* .sort((a, b) => b.total - a.total), a stable sort
SortByTotal(gs) ==
    IF gs = <<>> THEN <<>>
    ELSE InsertByTotal(SortByTotal(SubSeq(gs, 1, Len(gs) - 1)), gs[Len(gs)])

\* TripsTab.groupExpensesByCategory: every row of the trip is grouped
GroupExpensesByCategory(exps, cats) ==
    LET keys == FirstKeys(exps, {})
        rowsOf(k) == SelectSeq(exps, LAMBDA r : GroupKey(r) = k)
    IN SortByTotal([i \in DOMAIN keys |->
                       [id |-> keys[i],
                        name |-> GroupName(Head(rowsOf(keys[i])), cats),
                        total |-> SumAmounts(rowsOf(keys[i])),
                        rows |-> rowsOf(keys[i])]])

\* .order('start_date', { ascending: false })
RECURSIVE SortTrips(_)
SortTrips(S) ==
    IF S = {} THEN <<>>
    ELSE LET m == CHOOSE t \in S : \A q \in S :
                      t.start_date > q.start_date \/ (t.start_date = q.start_date /\ t.id <= q.id)
         IN <<m>> \o SortTrips(S \ {m})

\* .order('created_at', { ascending: false }): the latest identifier first
RECURSIVE SortNewest(_)
SortNewest(S) ==
    IF S = {} THEN <<>>
    ELSE LET m == CHOOSE r \in S : \A q \in S : r.id >= q.id
         IN <<m>> \o SortNewest(S \ {m})

\* faulty variant: a trip that only touches a bound of the range is left out
TripListedOpen(t, sDay, eDay) ==
    /\ StrLess(ToISOString[StartIso(t.start_date)], ToISOString[EndIso(eDay)])
    /\ StrLess(ToISOString[StartIso(sDay)], ToISOString[StartIso(t.end_date)])

\* tripStart <= endIso && tripEnd >= startIso, on toISOString() strings
TripOverlaps(t, sDay, eDay) ==
    /\ StrLeq(ToISOString[StartIso(t.start_date)], ToISOString[EndIso(eDay)])
    /\ StrLeq(ToISOString[StartIso(sDay)], ToISOString[StartIso(t.end_date)])

\* budget > 0 ? Math.min(100, (spent / budget) * 100) : 0
SpentPct(spent, budget) == IF budget > 0 THEN Min(Hundred, Percent(spent, budget)) ELSE 0

\* the trip's card: { ...trip, spent, budget, balance, spentPct }
TripCard(t, exps, bs) ==
    LET own == {r \in exps : r.trip_id = t.id /\ IsExpense(r)}
        spent == SumRows(own)
        budget == SumRows({b \in bs : b.user_id = CurrentUser /\ b.trip_id = t.id})
    IN Merge(t, [spent |-> spent, budget |-> budget, balance |-> budget - spent,
                 spentPct |-> SpentPct(spent, budget)])

\* `${trip.spentPct.toFixed(0)}% used`
UsedText(card) == card.spentPct

\* width: `${trip.spentPct}%`
UsedBar(card) == card.spentPct

\* ------------------------------------------------------- budget months
\* Dashboard.getMonthsInRange: every month from the start's to the end's
GetMonthsInRange(sDay, eDay) == MonthOf(sDay) .. MonthOf(eDay)

TripRow(id, uid, sDay, eDay) ==
    [id |-> id, user_id |-> uid, name |-> "t", start_date |-> sDay, end_date |-> eDay]

BudgetRow(id, uid, tripId, month, amount) ==
    [id |-> id, user_id |-> uid, trip_id |-> tripId, month_year |-> month, amount |-> amount]

\* the trip prop of a Dashboard of context t: the trip's row
TripProp(tt, t) == CHOOSE x \in tt : x.id = t

\* the months a Dashboard's budget covers: the trip's full span, or the range
BudgetMonths(tt, t, sDay, eDay) ==
    IF t # NoTrip
    THEN GetMonthsInRange(TripProp(tt, t).start_date, TripProp(tt, t).end_date)
    ELSE GetMonthsInRange(sDay, eDay)

\* the rows loadTotalBudget's query returns
BudgetQuery(bs, months, t) ==
    {b \in bs : b.user_id = CurrentUser /\ b.month_year \in months /\ b.trip_id = t}

\* loadTotalBudget's sum
LoadTotalBudget(bs, tt, t, sDay, eDay) ==
    SumRows(BudgetQuery(bs, BudgetMonths(tt, t, sDay, eDay), t))

\* ------------------------------------------------- aggregation: actions
AggCols == SelectCols \cup {"kind", "category_id"}

\* the Dashboard's collection after a load
LoadedRows(st, t, sDay, eDay) ==
    LET sorted == SortDesc({r \in st : Matches(r, CurrentUser, t, sDay, eDay)})
    IN [i \in DOMAIN sorted |-> Restrict(sorted[i], AggCols)]

AggRows(id, t) == {AggRow(id, t, k, a, c) : k \in Kinds, a \in Amounts, c \in CatIds \cup {NoCategory}}

\* the stores drawn: up to two rows of context t
AggStores(t) ==
    {{}} \cup {{r} : r \in AggRows(1, t)} \cup {{r, q} : r \in AggRows(1, t), q \in AggRows(2, t)}

CategoryTables == {<<>>, [c \in {"c1"} |-> "Food"], [c \in CatIds |-> IF c = "c1" THEN "Food" ELSE "Other"]}

BudgetTables(t, month) == {{}} \cup {{BudgetRow(1, CurrentUser, t, month, a)} : a \in Amounts}

\* a mounted Dashboard of context t and range r that has loaded from st
Loaded(st, t, r) ==
    /\ store = st
    /\ nextId = Cardinality(st) + 1
    /\ steps = 0
    /\ mounted = TRUE
    /\ trip = t
    /\ startDay = r[1]
    /\ endDay = r[2]
    /\ startIsoRef = StartIso(r[1])
    /\ endIsoRef = EndIso(r[2])
    /\ loading = FALSE
    /\ loads = <<>>
    /\ channels = Subscribed(<<>>, t)
    /\ channelRef = FreshChannel(<<>>)
    /\ acks = {}
    /\ loadFailed = FALSE
    /\ wire = "iso"

AggInit ==
    \E t \in HContexts, r \in HRanges :
        \E st \in AggStores(t), cats \in CategoryTables,
           bs \in BudgetTables(t, MonthOf(0)) :
            /\ Loaded(st, t, r)
            /\ FormIdle
            /\ expenses = LoadedRows(st, t, r[1], r[2])
            /\ categoriesTable = cats
            /\ tripsTable = IF t = NoTrip THEN {} ELSE {TripRow(t, CurrentUser, 0, 1)}
            /\ budgets = bs
            /\ categories = cats
            /\ grouped = <<>>
            /\ lendedTotal = 0
            /\ borrowedTotal = 0
            /\ totalBudget = LoadTotalBudget(bs, tripsTable, t, r[1], r[2])
            /\ trips = <<>>
            /\ tripExpenses = <<>>
            /\ tabCategories = <<>>
            /\ message = ""
            /\ calls = <<>>
            /\ last = Step("mount", None)

aggFrame == <<formVars, store, nextId, steps, viewVars, expenses, loading, loads, channels, channelRef,
              acks, loadFailed, wire, tableVars, categories, totalBudget, calls>>

\* the Dashboard's effect on [expenses, categories]
GroupingEffect ==
    /\ grouped' = Grouped(expenses, categories)
    /\ lendedTotal' = SumAmounts(SelectSeq(expenses, IsLended))
    /\ borrowedTotal' = SumAmounts(SelectSeq(expenses, IsBorrowed))
    /\ last' = Step("grouped", None)
    /\ UNCHANGED <<aggFrame, tabVars>>

\* the rows of TripsTab's expenses query, newest first
TripRowsQuery(st, sDay, eDay) ==
    LET hit == {r \in st : /\ r.user_id = CurrentUser
                           /\ r.trip_id # NoTrip
                           /\ r.date >= StartIso(sDay)
                           /\ r.date <= EndIso(eDay)}
        sorted == SortNewest(hit)
    IN [i \in DOMAIN sorted |-> Restrict(sorted[i], AggCols)]

\* expensesByTrip: trip -> its rows, in the query's order
ExpensesByTrip(rows) ==
    [t \in {rows[i].trip_id : i \in DOMAIN rows} |-> SelectSeq(rows, LAMBDA r : r.trip_id = t)]

\* the trips of the user, latest start first
TripsData(tt) == SortTrips({t \in tt : t.user_id = CurrentUser})

\* tripsWithSummary: the cards of the trips that overlap the range
TripCards(tt, st, bs, sDay, eDay) ==
    LET expensesData == TripRowsQuery(st, sDay, eDay)
        filtered == SelectSeq(TripsData(tt), LAMBDA t : TripOverlaps(t, sDay, eDay))
        rowSet == {expensesData[i] : i \in DOMAIN expensesData}
    IN [i \in DOMAIN filtered |-> TripCard(filtered[i], rowSet, bs)]

\* what loadTripsWithSummary sets, with its queries answered, for a range
TripsReload(sDay, eDay) ==
    /\ tabCategories' = categoriesTable
    /\ IF TripsData(tripsTable) = <<>>
       THEN /\ trips' = <<>>
            /\ UNCHANGED tripExpenses
       ELSE /\ tripExpenses' = ExpensesByTrip(TripRowsQuery(store, sDay, eDay))
            /\ trips' = TripCards(tripsTable, store, budgets, sDay, eDay)

\* TripsTab.loadTripsWithSummary, run by the mount effect
LoadTripsWithSummary ==
    /\ TripsReload(startDay, endDay)
    /\ last' = Step("tripsLoaded", None)
    /\ UNCHANGED <<aggFrame, grouped, lendedTotal, borrowedTotal, message>>

AggNext == GroupingEffect \/ LoadTripsWithSummary

AggSpec == AggInit /\ [][AggNext]_allVars

\* ------------------------------------------------ aggregation: properties
GroupsHolding(id) ==
    {k \in DOMAIN grouped : \E j \in DOMAIN grouped[k].rows : grouped[k].rows[j].id = id}

\* C12: after the Dashboard's grouping effect, the group totals (the
\* 'uncategorized' group included) add up to the amounts of the rows of kind
\* expense, each such row is in exactly one group, the lended and borrowed
\* totals are the sums of the lended and borrowed rows, and no lended or
\* borrowed row is in a group or counted in a group's total.
C12_GroupsPartitionExpenses ==
    last.op = "grouped" =>
        /\ TotalSpent = SumAmounts(SelectSeq(expenses, IsExpense))
        /\ \A i \in DOMAIN expenses :
               IsExpense(expenses[i]) => Cardinality(GroupsHolding(expenses[i].id)) = 1
        /\ lendedTotal = SumAmounts(SelectSeq(expenses, IsLended))
        /\ borrowedTotal = SumAmounts(SelectSeq(expenses, IsBorrowed))
        /\ \A k \in DOMAIN grouped :
               /\ \A j \in DOMAIN grouped[k].rows : IsExpense(grouped[k].rows[j])
               /\ grouped[k].total = SumAmounts(grouped[k].rows)

\* a borrowed row next to an uncategorized expense, with categories defined
C12_Witness ==
    /\ last.op = "grouped"
    /\ Uncategorized \in DOMAIN grouped
    /\ grouped[Uncategorized].total > 0
    /\ borrowedTotal > 0
    /\ DOMAIN categories # {}

RECURSIVE SumGroups(_)
SumGroups(gs) == IF gs = <<>> THEN 0 ELSE Head(gs).total + SumGroups(Tail(gs))

\* const expenses = tripExpenses[trip.id] || []
CardExpenses(card) == IF card.id \in DOMAIN tripExpenses THEN tripExpenses[card.id] ELSE <<>>

\* the category breakdown a trip card renders
CardGroups(card) == GroupExpensesByCategory(CardExpenses(card), tabCategories)

\* C13: the category groups of every trip card hold no borrowed or lended
\* row, and their totals add up to the spent amount the card reports.
C13_TripGroupsMatchSpent ==
    \A i \in DOMAIN trips :
        /\ \A g \in DOMAIN CardGroups(trips[i]) :
               \A j \in DOMAIN CardGroups(trips[i])[g].rows :
                   IsExpense(CardGroups(trips[i])[g].rows[j])
        /\ SumGroups(CardGroups(trips[i])) = trips[i].spent

\* spent / budget * 100 without a cap, 0 for a zero budget
Usage(spent, budget) == IF budget = 0 THEN 0 ELSE Percent(spent, budget)

\* what the Dashboard shows after its grouping effect
DashboardUsageUncapped ==
    last.op = "grouped" =>
        LET spent == SumAmounts(SelectSeq(expenses, IsExpense))
        IN /\ Balance = totalBudget - spent
           /\ Progress = Usage(spent, totalBudget)
           /\ ProgressBar = Min(Usage(spent, totalBudget), Hundred)

\* C14: the Dashboard and every trip card report balance = budget - spent
\* and the uncapped usage percentage (0 for a zero budget) as text; only the
\* bar's fill is capped at 100.
C14_UsageUncapped ==
    /\ DashboardUsageUncapped
    /\ \A i \in DOMAIN trips :
           /\ trips[i].balance = trips[i].budget - trips[i].spent
           /\ UsedText(trips[i]) = Usage(trips[i].spent, trips[i].budget)
           /\ UsedBar(trips[i]) = Min(Usage(trips[i].spent, trips[i].budget), Hundred)

\* ================================================================ budgets
\* saveBudget (Dashboard) and setTripBudget (trip card) as the requests they
\* await, one action per request, so that calls interleave.
CallIds == {1, 2}
NoRow == <<>>        \* no row found

FreshCall == CHOOSE c \in CallIds \ DOMAIN calls : \A d \in CallIds \ DOMAIN calls : c <= d

\* a call up to its first await; `before` and `solo` are history: the budget
\* rows at the call and whether no other call has been in flight with it
Call(op, pc, t, months, amount) ==
    [op |-> op, pc |-> pc, trip |-> t, months |-> months, amount |-> amount,
     n |-> steps + 1, existing |-> NoRow, live |-> TRUE,
     solo |-> calls = <<>>, deleted |-> FALSE, before |-> budgets]

Started(rec) == (FreshCall :> rec) @@ [c \in DOMAIN calls |-> [calls[c] EXCEPT !.solo = FALSE]]

\* the history entry of a call that has ended
Ended(rec, ok, text) == [op |-> rec.op, info |-> [call |-> rec, ok |-> ok], alert |-> text]

\* faulty variant: the delete ignores the months
DeleteMatchesAnyMonth(b, months, t) == b.user_id = CurrentUser /\ b.trip_id = t

\* saveBudget's delete: .eq('user_id').in('month_year', months).eq/is('trip_id')
DeleteMatches(b, months, t) ==
    b.user_id = CurrentUser /\ b.month_year \in months /\ b.trip_id = t

\* the rows saveBudget inserts: one per month
SavedRows(rec) ==
    {BudgetRow(<<rec.n, m>>, CurrentUser, rec.trip, m, rec.amount) : m \in rec.months}

\* the rows other owners and other contexts hold before anything is saved
ForeignBudgets ==
    {BudgetRow(<<0, 1>>, OtherUser, NoTrip, 1, 1), BudgetRow(<<0, 2>>, CurrentUser, 2, 1, 1)}

BudgetRanges == {<<0, 3>>, <<2, 5>>}

\* the component a call belongs to is still the mounted one in context t
StillMounted(rec, t) ==
    IF rec.op = "saveBudget" THEN (rec.trip = NoTrip) = (t = NoTrip) ELSE t # NoTrip

\* the casual Dashboard over the first two months; trip 1 spans them
BudgetInit ==
    \E t \in {NoTrip}, r \in {<<0, 3>>} :
        /\ Loaded({}, t, r)
        /\ FormIdle
        /\ expenses = <<>>
        /\ categoriesTable = <<>>
        /\ tripsTable = {TripRow(1, CurrentUser, 0, 3), TripRow(2, CurrentUser, 2, 5)}
        /\ budgets = ForeignBudgets
        /\ categories = <<>>
        /\ grouped = <<>>
        /\ lendedTotal = 0
        /\ borrowedTotal = 0
        /\ totalBudget = LoadTotalBudget(budgets, tripsTable, t, r[1], r[2])
        /\ trips = IF t = NoTrip THEN <<>> ELSE TripCards(tripsTable, {}, budgets, r[1], r[2])
        /\ tripExpenses = <<>>
        /\ tabCategories = <<>>
        /\ message = ""
        /\ calls = <<>>
        /\ last = Step("mount", None)

budgetFrame == <<formVars, store, nextId, mounted, expenses, loading, loads, acks, loadFailed, wire,
                 categoriesTable, tripsTable, categories, grouped, lendedTotal, borrowedTotal,
                 message>>

\* the range or the tab changes: the budget and the trips are loaded again,
\* here with their queries answered at once
BudgetView(t, s, e) ==
    /\ steps < MaxSteps
    /\ <<t, s, e>> # <<trip, startDay, endDay>>
    /\ steps' = steps + 1
    /\ trip' = t
    /\ startDay' = s
    /\ endDay' = e
    /\ startIsoRef' = StartIso(s)
    /\ endIsoRef' = EndIso(e)
    /\ channels' = Subscribed(Unsubscribed(channels, channelRef), t)
    /\ channelRef' = FreshChannel(Unsubscribed(channels, channelRef))
    /\ totalBudget' = LoadTotalBudget(budgets, tripsTable, t, s, e)
    /\ IF t # NoTrip
       THEN TripsReload(s, e)
       ELSE trips' = <<>> /\ tripExpenses' = <<>> /\ tabCategories' = <<>>
    /\ calls' = [c \in DOMAIN calls |->
                    [calls[c] EXCEPT !.live = @ /\ StillMounted(calls[c], t)]]
    /\ last' = Step("view", None)
    /\ UNCHANGED <<budgetFrame, budgets>>

\* saveBudget(amount) up to `await del`
SaveBudget(amount) ==
    /\ steps < MaxSteps
    /\ CallIds \ DOMAIN calls # {}
    /\ amount >= 0
    /\ steps' = steps + 1
    /\ calls' = Started(Call("saveBudget", "delete", trip,
                             BudgetMonths(tripsTable, trip, startDay, endDay), amount))
    /\ last' = Step("save", None)
    /\ UNCHANGED <<budgetFrame, viewVars, channels, channelRef, budgets, totalBudget, tabVars>>

\* the delete is answered; its result is not looked at
SaveDelete(c, ok) ==
    /\ c \in DOMAIN calls
    /\ calls[c].op = "saveBudget"
    /\ calls[c].pc = "delete"
    /\ budgets' = IF ok
                  THEN {b \in budgets : ~DeleteMatches(b, calls[c].months, calls[c].trip)}
                  ELSE budgets
    /\ calls' = [calls EXCEPT ![c].pc = "insert", ![c].deleted = ok]
    /\ last' = Step("deleted", None)
    /\ UNCHANGED <<budgetFrame, steps, viewVars, channels, channelRef, totalBudget, tabVars>>

\* the insert is answered
SaveInsert(c, ok) ==
    /\ c \in DOMAIN calls
    /\ calls[c].op = "saveBudget"
    /\ calls[c].pc = "insert"
    /\ budgets' = IF ok THEN budgets \cup SavedRows(calls[c]) ELSE budgets
    /\ totalBudget' = IF ok /\ calls[c].live
                      THEN calls[c].amount * Cardinality(calls[c].months)
                      ELSE totalBudget
    /\ calls' = Without(calls, c)
    /\ last' = Ended(calls[c], ok, IF ok THEN NoAlert ELSE "Failed to save budget")
    /\ UNCHANGED <<budgetFrame, steps, viewVars, channels, channelRef, tabVars>>

\* trips.find(t => t.id === tripId)
CardOf(tripId) == trips[CHOOSE i \in DOMAIN trips : trips[i].id = tripId]

\* setTripBudget(tripId, budgetAmount) up to its select
SetTripBudget(tripId, amount) ==
    /\ trip # NoTrip
    /\ steps < MaxSteps
    /\ CallIds \ DOMAIN calls # {}
    /\ amount > 0
    /\ \E i \in DOMAIN trips : trips[i].id = tripId
    /\ steps' = steps + 1
    /\ calls' = Started(Call("setTripBudget", "select", tripId,
                             {MonthOf(CardOf(tripId).start_date)}, amount))
    /\ last' = Step("set", None)
    /\ UNCHANGED <<budgetFrame, viewVars, channels, channelRef, budgets, totalBudget, tabVars>>

\* the rows of the trip the select may return one of (limit 1, no order)
TripBudgetRows(bs, tripId) == {b \in bs : b.user_id = CurrentUser /\ b.trip_id = tripId}

\* the select is answered: with one of the trip's rows, with none, or with an
\* error, which leaves `existing` empty as well
SelectExisting(c, found) ==
    /\ c \in DOMAIN calls
    /\ calls[c].op = "setTripBudget"
    /\ calls[c].pc = "select"
    /\ found \in {b.id : b \in TripBudgetRows(budgets, calls[c].trip)} \cup {NoRow}
    /\ calls' = [calls EXCEPT ![c].pc = "write", ![c].existing = found]
    /\ last' = Step("selected", None)
    /\ UNCHANGED <<budgetFrame, steps, viewVars, channels, channelRef, budgets, totalBudget,
                   tabVars>>

\* .update({ amount }).eq('id', existing[0].id), or the insert of one row for
\* the month of the trip's start
TripBudgetWritten(bs, rec) ==
    IF rec.existing # NoRow
    THEN {IF b.id = rec.existing THEN [b EXCEPT !.amount = rec.amount] ELSE b : b \in bs}
    ELSE bs \cup SavedRows(rec)

\* the update or insert is answered
WriteTripBudget(c, ok) ==
    /\ c \in DOMAIN calls
    /\ calls[c].op = "setTripBudget"
    /\ calls[c].pc = "write"
    /\ budgets' = IF ok THEN TripBudgetWritten(budgets, calls[c]) ELSE budgets
    /\ calls' = IF ok THEN [calls EXCEPT ![c].pc = "reload"] ELSE Without(calls, c)
    /\ last' = IF ok THEN Step("written", None)
               ELSE Ended(calls[c], FALSE, "Failed to set budget")
    /\ UNCHANGED <<budgetFrame, steps, viewVars, channels, channelRef, totalBudget, tabVars>>

\* await loadTripsWithSummary() at the end of setTripBudget
ReloadTrips(c) ==
    /\ c \in DOMAIN calls
    /\ calls[c].op = "setTripBudget"
    /\ calls[c].pc = "reload"
    /\ IF calls[c].live
       THEN TripsReload(startDay, endDay)
       ELSE UNCHANGED <<trips, tripExpenses, tabCategories>>
    /\ calls' = Without(calls, c)
    /\ last' = Ended(calls[c], TRUE, NoAlert)
    /\ UNCHANGED <<budgetFrame, steps, viewVars, channels, channelRef, budgets, totalBudget>>

BudgetNext ==
    \/ \E t \in HContexts, r \in BudgetRanges : BudgetView(t, r[1], r[2])
    \/ \E a \in Amounts : SaveBudget(a)
    \/ \E c \in CallIds, ok \in BOOLEAN : SaveDelete(c, ok)
    \/ \E c \in CallIds, ok \in BOOLEAN : SaveInsert(c, ok)
    \/ \E a \in Amounts : SetTripBudget(1, a)
    \/ \E c \in CallIds, found \in {b.id : b \in budgets} \cup {NoRow} : SelectExisting(c, found)
    \/ \E c \in CallIds, ok \in BOOLEAN : WriteTripBudget(c, ok)
    \/ \E c \in CallIds : ReloadTrips(c)

BudgetSpec == BudgetInit /\ [][BudgetNext]_allVars

\* ----------------------------------------------------- budgets: properties
\* the rows of one owner, context and month
Bucket(bs, uid, t, m) == {b \in bs : b.user_id = uid /\ b.trip_id = t /\ b.month_year = m}

\* the budget of the current user's context t over a set of months
PeriodBudget(bs, t, months) == SumRows(BudgetQuery(bs, months, t))

\* a saveBudget call has just ended: delete and insert succeeded and no other
\* call was in flight with it
SavedAlone ==
    /\ last.op = "saveBudget"
    /\ last.info.ok
    /\ last.info.call.solo
    /\ last.info.call.deleted

C16_OneRowPerMonth ==
    \A b \in budgets : Bucket(budgets, b.user_id, b.trip_id, b.month_year) = {b}

\* a budget call of a trip context has just ended: every request succeeded
\* and no other call was in flight with it
TripBudgetSetAlone ==
    /\ last.op \in {"saveBudget", "setTripBudget"}
    /\ last.info.ok
    /\ last.info.call.solo
    /\ last.info.call.trip # NoTrip
    /\ last.op = "saveBudget" => last.info.call.deleted

\* the months of a trip's full span
SpanMonths(tripId) ==
    GetMonthsInRange(TripProp(tripsTable, tripId).start_date, TripProp(tripsTable, tripId).end_date)

\* C17: after a budget X is set for a trip, from the Dashboard or from the
\* trip's card, every month of the trip's span has exactly one row, holding X,
\* and the trip's period budget is X times the number of these months.
C17_TripBudgetEveryMonth ==
    TripBudgetSetAlone =>
        LET c == last.info.call
        IN /\ \A m \in SpanMonths(c.trip) :
                  /\ Cardinality(Bucket(budgets, CurrentUser, c.trip, m)) = 1
                  /\ \A b \in Bucket(budgets, CurrentUser, c.trip, m) : b.amount = c.amount
           /\ PeriodBudget(budgets, c.trip, SpanMonths(c.trip))
                  = c.amount * Cardinality(SpanMonths(c.trip))

\* ================================================================== trips
\* deleteTrip (trip card) as the requests it awaits, next to an ExpenseInput
\* of a trip card that inserts an expense for the trip.
DeleteSteps == <<"expenses", "budgets", "trip">>

FailureMessage ==
    [i \in DOMAIN DeleteSteps |->
        IF i = 1 THEN "Failed to delete trip expenses"
        ELSE IF i = 2 THEN "Failed to delete trip budgets"
        ELSE "Failed to delete trip"]

Returned == 0      \* the handler has returned

\* faulty variant: an error does not stop the handler
StepAfterAny(i, ok) == IF i < Len(DeleteSteps) THEN i + 1 ELSE Returned

\* the step deleteTrip goes on with after step i: none after an error
StepAfter(i, ok) == IF ok /\ i < Len(DeleteSteps) THEN i + 1 ELSE Returned

\* a call of a trip handler up to its first await; `done`, `failed`, `solo`
\* and `before` are history: the requests answered so far, the one that
\* returned an error, whether no other call has been in flight with this
\* one, and the expenses at the call
TripCall(op, pc, tripId) ==
    [op |-> op, pc |-> pc, i |-> 1, trip |-> tripId, done |-> <<>>, failed |-> Returned,
     solo |-> calls = <<>>, before |-> store]

\* the row an ExpenseInput of a trip inserts
InsertRow(id, tripId) == AggRow(id, tripId, "expense", 1, NoCategory)

TripStores == {{}, {InsertRow(1, 1)}, {InsertRow(1, 1), InsertRow(2, 2)}}
TripBudgets == {{}, {BudgetRow(1, CurrentUser, 1, 0, 1)},
                {BudgetRow(1, CurrentUser, 1, 0, 1), BudgetRow(2, CurrentUser, 2, 0, 1)}}

\* the trips tab with no trip selected: the TripsTab has loaded, no Dashboard
TripInit ==
    \E st \in TripStores, bs \in TripBudgets :
        /\ store = st
        /\ nextId = Cardinality(st) + 1
        /\ steps = 0
        /\ mounted = FALSE
        /\ trip = NoTrip
        /\ startDay = 0
        /\ endDay = 1
        /\ startIsoRef = 0
        /\ endIsoRef = 0
        /\ expenses = <<>>
        /\ loading = FALSE
        /\ loads = <<>>
        /\ channels = <<>>
        /\ channelRef = NoChannel
        /\ acks = {}
        /\ loadFailed = FALSE
        /\ wire = "iso"
        /\ FormIdle
        /\ categoriesTable = <<>>
        /\ tripsTable = {TripRow(t, CurrentUser, 0, 1) : t \in TripIds}
        /\ budgets = bs
        /\ categories = <<>>
        /\ grouped = <<>>
        /\ lendedTotal = 0
        /\ borrowedTotal = 0
        /\ totalBudget = 0
        /\ trips = TripCards(tripsTable, st, bs, 0, 1)
        /\ tripExpenses = ExpensesByTrip(TripRowsQuery(st, 0, 1))
        /\ tabCategories = <<>>
        /\ message = ""
        /\ calls = <<>>
        /\ last = Step("mount", None)

tripFrame == <<formVars, viewVars, expenses, loading, loads, channels, channelRef, acks, loadFailed, wire,
               dashVars>>

\* deleteTrip(tripId), confirmed, up to its first await
DeleteTrip(tripId) ==
    /\ steps < MaxSteps
    /\ CallIds \ DOMAIN calls # {}
    /\ \E i \in DOMAIN trips : trips[i].id = tripId
    /\ steps' = steps + 1
    /\ calls' = Started(TripCall("deleteTrip", "step", tripId))
    /\ last' = Step("delete", None)
    /\ UNCHANGED <<tripFrame, store, nextId, tableVars, tabVars>>

\* what request i deletes, when it succeeds
ExpensesLeft(st, i, tripId) == IF i = 1 THEN {r \in st : r.trip_id # tripId} ELSE st
BudgetsLeft(bs, i, tripId) == IF i = 2 THEN {b \in bs : b.trip_id # tripId} ELSE bs
TripsLeft(tt, i, tripId) == IF i = 3 THEN {t \in tt : t.id # tripId} ELSE tt

\* request i of deleteTrip is answered
DeleteStep(c, ok) ==
    /\ c \in DOMAIN calls
    /\ calls[c].op = "deleteTrip"
    /\ calls[c].pc = "step"
    /\ LET rec == calls[c]
           next == StepAfter(rec.i, ok)
           now == [rec EXCEPT !.done = Append(@, rec.i),
                              !.failed = IF ok \/ @ # Returned THEN @ ELSE rec.i]
       IN /\ store' = IF ok THEN ExpensesLeft(store, rec.i, rec.trip) ELSE store
          /\ budgets' = IF ok THEN BudgetsLeft(budgets, rec.i, rec.trip) ELSE budgets
          /\ tripsTable' = IF ok THEN TripsLeft(tripsTable, rec.i, rec.trip) ELSE tripsTable
          /\ message' = IF ~ok THEN FailureMessage[rec.i]
                        ELSE IF rec.i = Len(DeleteSteps) THEN "Trip deleted successfully"
                        ELSE message
          /\ calls' = IF next # Returned THEN [calls EXCEPT ![c] = [now EXCEPT !.i = next]]
                      ELSE IF ok THEN [calls EXCEPT ![c] = [now EXCEPT !.pc = "reload"]]
                      ELSE Without(calls, c)
          /\ last' = IF next # Returned THEN Step("step", None)
                     ELSE Ended(now, ok, NoAlert)
    /\ UNCHANGED <<tripFrame, nextId, steps, categoriesTable, trips, tripExpenses, tabCategories>>

\* await loadTripsWithSummary() after the trip is deleted
ReloadAfterDelete(c) ==
    /\ c \in DOMAIN calls
    /\ calls[c].op = "deleteTrip"
    /\ calls[c].pc = "reload"
    /\ TripsReload(startDay, endDay)
    /\ calls' = [calls EXCEPT ![c].pc = "timer"]
    /\ last' = Step("reloaded", None)
    /\ UNCHANGED <<tripFrame, store, nextId, steps, tableVars, message>>

\* setTimeout(() => setMessage(''), 2000)
ClearMessage(c) ==
    /\ c \in DOMAIN calls
    /\ calls[c].op = "deleteTrip"
    /\ calls[c].pc = "timer"
    /\ message' = ""
    /\ calls' = Without(calls, c)
    /\ last' = Step("timer", None)
    /\ UNCHANGED <<tripFrame, store, nextId, steps, tableVars, trips, tripExpenses, tabCategories>>

\* the ExpenseInput of a trip's card is submitted: up to its insert
SubmitTripExpense(tripId) ==
    /\ steps < MaxSteps
    /\ CallIds \ DOMAIN calls # {}
    /\ \E i \in DOMAIN trips : trips[i].id = tripId
    /\ steps' = steps + 1
    /\ calls' = Started(TripCall("insertExpense", "insert", tripId))
    /\ last' = Step("submit", None)
    /\ UNCHANGED <<tripFrame, store, nextId, tableVars, tabVars>>

\* the insert is answered; on success 'expense-added' is dispatched and the
\* TripsTab loads its trips again
InsertTripExpense(c, ok) ==
    /\ c \in DOMAIN calls
    /\ calls[c].op = "insertExpense"
    /\ store' = IF ok THEN store \cup {InsertRow(nextId, calls[c].trip)} ELSE store
    /\ nextId' = IF ok THEN nextId + 1 ELSE nextId
    /\ IF ok
       THEN /\ tabCategories' = categoriesTable
            /\ IF TripsData(tripsTable) = <<>>
               THEN trips' = <<>> /\ UNCHANGED tripExpenses
               ELSE /\ tripExpenses' = ExpensesByTrip(TripRowsQuery(store', startDay, endDay))
                    /\ trips' = TripCards(tripsTable, store', budgets, startDay, endDay)
       ELSE UNCHANGED <<trips, tripExpenses, tabCategories>>
    /\ calls' = Without(calls, c)
    /\ last' = Ended(calls[c], ok, IF ok THEN NoAlert ELSE "Failed to add expense (db error).")
    /\ UNCHANGED <<tripFrame, steps, tableVars, message>>

TripNext ==
    \/ \E t \in TripIds : DeleteTrip(t)
    \/ \E c \in CallIds, ok \in BOOLEAN : DeleteStep(c, ok)
    \/ \E c \in CallIds : ReloadAfterDelete(c)
    \/ \E c \in CallIds : ClearMessage(c)
    \/ \E t \in TripIds : SubmitTripExpense(t)
    \/ \E c \in CallIds, ok \in BOOLEAN : InsertTripExpense(c, ok)

TripSpec == TripInit /\ [][TripNext]_allVars

\* ------------------------------------------------------- trips: properties
TripExists(tripId) == \E t \in tripsTable : t.id = tripId

\* an expense or a budget row refers to the trip
Referenced(tripId) ==
    \/ \E r \in store : r.trip_id = tripId
    \/ \E b \in budgets : b.trip_id = tripId

\* the requests answered are the first ones, in order
InOrder(done) == done = [k \in 1 .. Len(done) |-> k]

\* what deleteTrip's requests do, one call at a time: they are made in the
\* order expenses, budgets, trip; after an error none follows and the message
\* names the failed request; the trip's row is there as long as its own
\* request has not been reached
DeleteTripHalts ==
    /\ \A c \in DOMAIN calls :
           calls[c].op = "deleteTrip" =>
               /\ InOrder(calls[c].done)
               /\ calls[c].failed = Returned
               /\ calls[c].pc = "step" =>
                      /\ calls[c].i = Len(calls[c].done) + 1
                      /\ calls[c].solo => TripExists(calls[c].trip)
    /\ last.op = "deleteTrip" =>
           LET c == last.info.call
           IN /\ InOrder(c.done)
              /\ last.info.ok =>
                     /\ c.done = <<1, 2, 3>>
                     /\ c.failed = Returned
                     /\ message = "Trip deleted successfully"
                     /\ ~TripExists(c.trip)
              /\ ~last.info.ok =>
                     /\ c.failed = c.done[Len(c.done)]
                     /\ message = FailureMessage[c.failed]
                     /\ c.solo => TripExists(c.trip)

C19_TripReferenceValid ==
    \A r \in store :
        r.trip_id # NoTrip =>
            \E t \in tripsTable : t.id = r.trip_id /\ t.user_id = r.user_id

\* ============================================================= categories
\* deleteCategory of the Dashboard and of the trip cards, as the requests
\* they await.  The groups deleted here are those of a category; the
\* 'uncategorized' group is left alone.
RECURSIVE EmitAll(_, _, _)
\* the store pushes one change per row written, here in the order of the
\* identifiers; a DELETE carries the primary key only
EmitAll(chs, event, rows) ==
    IF rows = {} THEN chs
    ELSE LET r == CHOOSE x \in rows : \A y \in rows : x.id <= y.id
         IN EmitAll(Emit(chs, event, r, IF event = "DELETE" THEN [id |-> r.id] ELSE r),
                    event, rows \ {r})

\* categories.find(c => c.name.toLowerCase() === 'other'), its id or null
OtherCategoryId(cats) ==
    IF \E c \in DOMAIN cats : cats[c] = "Other"
    THEN CHOOSE c \in DOMAIN cats : cats[c] = "Other"
    ELSE NoCategory

\* a call up to its first await; `solo` and `before` are history
CategoryCall(op, pc, tripId, cat, other) ==
    [op |-> op, pc |-> pc, trip |-> tripId, cat |-> cat, other |-> other,
     solo |-> calls = <<>>, before |-> store, beforeCats |-> categoriesTable]

\* .update({ category_id: otherCategoryId }).eq('category_id', categoryId)
Recategorized(st, cat, other) ==
    {IF r.category_id = cat THEN [r EXCEPT !.category_id = other] ELSE r : r \in st}

\* prev.map(exp => exp.category_id === categoryId ? { ...exp, category_id } : exp)
MapCategory(s, cat, other) ==
    [i \in DOMAIN s |-> IF s[i].category_id = cat THEN [s[i] EXCEPT !.category_id = other] ELSE s[i]]

CategoryRows(id) == {AggRow(id, 1, "expense", 1, c) : c \in CatIds \cup {NoCategory}}

CategoryStores(cats) ==
    {st \in {{}} \cup {{r} : r \in CategoryRows(1)}
            \cup {{r, q} : r \in CategoryRows(1), q \in CategoryRows(2)} :
        \A r \in st : r.category_id \in DOMAIN cats \cup {NoCategory}}

\* the trips tab with trip 1 selected: its Dashboard and the TripsTab loaded
CategoryInit ==
    \E cats \in CategoryTables \ {<<>>} :
        \E st \in CategoryStores(cats) :
            /\ Loaded(st, 1, <<0, 1>>)
            /\ FormIdle
            /\ expenses = LoadedRows(st, 1, 0, 1)
            /\ categoriesTable = cats
            /\ tripsTable = {TripRow(1, CurrentUser, 0, 1)}
            /\ budgets = {}
            /\ categories = cats
            /\ grouped = Grouped(expenses, cats)
            /\ lendedTotal = 0
            /\ borrowedTotal = 0
            /\ totalBudget = 0
            /\ trips = TripCards(tripsTable, st, {}, 0, 1)
            /\ tripExpenses = ExpensesByTrip(TripRowsQuery(st, 0, 1))
            /\ tabCategories = cats
            /\ message = ""
            /\ calls = <<>>
            /\ last = Step("mount", None)

categoryFrame == <<formVars, nextId, viewVars, loading, loads, channelRef, acks, loadFailed, wire,
                   tripsTable, budgets, grouped, lendedTotal, borrowedTotal, totalBudget,
                   message>>

\* Dashboard.deleteCategory(group.id, group.name), confirmed, up to its
\* first await: the update when an 'Other' category is known, else the delete
DeleteCategory(cat) ==
    /\ steps < MaxSteps
    /\ CallIds \ DOMAIN calls # {}
    /\ cat \in DOMAIN grouped \cap CatIds
    /\ steps' = steps + 1
    /\ calls' = Started(CategoryCall("deleteCategory",
                                     IF OtherCategoryId(categories) # NoCategory
                                     THEN "update" ELSE "delete",
                                     trip, cat, OtherCategoryId(categories)))
    /\ last' = Step("deleteCategory?", None)
    /\ UNCHANGED <<categoryFrame, store, channels, expenses, categoriesTable, categories,
                   trips, tripExpenses, tabCategories>>

\* the update of the expenses is answered
RecategorizeExpenses(c, ok) ==
    /\ c \in DOMAIN calls
    /\ calls[c].op = "deleteCategory"
    /\ calls[c].pc = "update"
    /\ store' = IF ok THEN Recategorized(store, calls[c].cat, calls[c].other) ELSE store
    /\ channels' = IF ok THEN EmitAll(channels, "UPDATE", store' \ store) ELSE channels
    /\ calls' = IF ok THEN [calls EXCEPT ![c].pc = "delete"] ELSE Without(calls, c)
    /\ last' = IF ok THEN Step("recategorized", None)
               ELSE Ended(calls[c], FALSE, "Failed to recategorize expenses")
    /\ UNCHANGED <<categoryFrame, steps, expenses, categoriesTable, categories,
                   trips, tripExpenses, tabCategories>>

\* the delete of the category is answered
RemoveCategory(c, ok) ==
    /\ c \in DOMAIN calls
    /\ calls[c].op = "deleteCategory"
    /\ calls[c].pc = "delete"
    /\ categoriesTable' = IF ok THEN Without(categoriesTable, calls[c].cat) ELSE categoriesTable
    /\ categories' = IF ok THEN Without(categories, calls[c].cat) ELSE categories
    /\ expenses' = IF ok THEN MapCategory(expenses, calls[c].cat, calls[c].other) ELSE expenses
    /\ calls' = Without(calls, c)
    /\ last' = Ended(calls[c], ok, IF ok THEN NoAlert ELSE "Failed to delete category")
    /\ UNCHANGED <<categoryFrame, steps, store, channels, trips, tripExpenses, tabCategories>>

\* the category groups a trip's card shows
CardCategories(tripId) ==
    {CardGroups(CardOf(tripId))[g].id : g \in DOMAIN CardGroups(CardOf(tripId))}

\* TripsTab.deleteCategory(trip.id, group.id, group.name), confirmed, up to
\* its await
DeleteTripCategory(tripId, cat) ==
    /\ steps < MaxSteps
    /\ CallIds \ DOMAIN calls # {}
    /\ \E i \in DOMAIN trips : trips[i].id = tripId
    /\ cat \in CardCategories(tripId) \cap CatIds
    /\ steps' = steps + 1
    /\ calls' = Started(CategoryCall("deleteTripCategory", "delete", tripId, cat, NoCategory))
    /\ last' = Step("deleteTripCategory?", None)
    /\ UNCHANGED <<categoryFrame, store, channels, expenses, categoriesTable, categories,
                   trips, tripExpenses, tabCategories>>

\* from('expenses').delete().eq('trip_id', tripId).eq('category_id', categoryId)
CategoryExpenses(st, tripId, cat) == {r \in st : r.trip_id = tripId /\ r.category_id = cat}

\* the delete of the expenses is answered; on success the trips are loaded again
DeleteCategoryExpenses(c, ok) ==
    /\ c \in DOMAIN calls
    /\ calls[c].op = "deleteTripCategory"
    /\ store' = IF ok THEN store \ CategoryExpenses(store, calls[c].trip, calls[c].cat) ELSE store
    /\ channels' = IF ok THEN EmitAll(channels, "DELETE", store \ store') ELSE channels
    /\ IF ok
       THEN /\ tabCategories' = categoriesTable
            /\ tripExpenses' = ExpensesByTrip(TripRowsQuery(store', startDay, endDay))
            /\ trips' = TripCards(tripsTable, store', budgets, startDay, endDay)
       ELSE UNCHANGED <<trips, tripExpenses, tabCategories>>
    /\ calls' = Without(calls, c)
    /\ last' = Ended(calls[c], ok, IF ok THEN NoAlert ELSE "Failed to delete category expenses")
    /\ UNCHANGED <<categoryFrame, steps, expenses, categoriesTable, categories>>

CategoryNext ==
    \/ \E cat \in CatIds : DeleteCategory(cat)
    \/ \E c \in CallIds, ok \in BOOLEAN : RecategorizeExpenses(c, ok)
    \/ \E c \in CallIds, ok \in BOOLEAN : RemoveCategory(c, ok)
    \/ \E cat \in CatIds : DeleteTripCategory(1, cat)
    \/ \E c \in CallIds, ok \in BOOLEAN : DeleteCategoryExpenses(c, ok)
    \/ \E c \in ChanIds : DeliverNotification(c)
    \/ GroupingEffect

CategorySpec == CategoryInit /\ [][CategoryNext]_allVars

\* ------------------------------------------------- categories: properties
\* a delete-category call has just ended with every request successful and
\* no other call in flight with it
CategoryDeletedAlone ==
    /\ last.op \in {"deleteCategory", "deleteTripCategory"}
    /\ last.info.ok
    /\ last.info.call.solo

\* C20: after a category is deleted, from the Dashboard or from a trip card,
\* every expense that referred to it is still in the store and refers to the
\* 'Other' category, or to none when there is no 'Other'; so do the records
\* of the collection; and the category is gone.  When the reassignment
\* failed, the category is still there.
C20_DeleteCategoryReassigns ==
    /\ CategoryDeletedAlone =>
           LET c == last.info.call
               target == OtherCategoryId(c.beforeCats)
           IN /\ \A r \in c.before :
                     r.category_id = c.cat =>
                         \E q \in store : q.id = r.id /\ q.category_id = target
              /\ \A r \in c.before : \E q \in store : q.id = r.id
              /\ \A i \in DOMAIN expenses : expenses[i].category_id # c.cat
              /\ c.cat \notin DOMAIN categoriesTable
    /\ (last.op = "deleteCategory" /\ ~last.info.ok /\ last.info.call.solo
            /\ last.info.call.pc = "update"
            /\ last.info.call.cat \in DOMAIN last.info.call.beforeCats) =>
           last.info.call.cat \in DOMAIN categoriesTable

\* ============================================================ date range
\* App's date inputs, its 'trips active' check and the Dashboard's range
\* props, in the casual view.
StartOfMonth(day) == MonthOf(day) * DaysPerMonth
EndOfMonth(day) == MonthOf(day) * DaysPerMonth + (DaysPerMonth - 1)

\* str.split('-').map(Number) gives a year, a month and a day
Parses(str) == str # NoDate

\* Dashboard: propStartDate || format(startOfMonth(new Date()), 'yyyy-MM-dd')
DashStartDateStr(prop, now) == IF prop # NoDate THEN prop ELSE StartOfMonth(now)
\* Dashboard: propEndDate || format(endOfMonth(new Date()), 'yyyy-MM-dd')
DashEndDateStr(prop, now) == IF prop # NoDate THEN prop ELSE EndOfMonth(now)

\* checkTripsForDateRange's query: .eq('user_id').lte('start_date', endIso)
\* .gte('end_date', startIso), evaluated by the store on instants
CheckTripsQuery(tt, sDay, eDay) ==
    {t \in tt : /\ t.user_id = CurrentUser
                /\ StartIso(t.start_date) <= EndIso(eDay)
                /\ StartIso(t.end_date) >= StartIso(sDay)}

\* a checkTripsForDateRange call up to its await
CheckCall(s, e) == [op |-> "checkTrips", pc |-> "count", sDay |-> s, eDay |-> e]

\* a loadTotalBudget call up to its await
BudgetLoadCall(s, e) ==
    [op |-> "loadTotalBudget", pc |-> "select", months |-> GetMonthsInRange(s, e)]

\* the trip tables drawn: trips of the first month, into the range's first
\* day, and from its last day on; one of another user
TripSpans == {<<0, 1>>, <<0, 2>>, <<3, 4>>}
TripTables ==
    {{}} \cup {{TripRow(1, CurrentUser, sp[1], sp[2])} : sp \in TripSpans}
         \cup {{TripRow(1, CurrentUser, 0, 1), TripRow(2, u, 3, 4)} : u \in {CurrentUser, OtherUser}}

\* the dates picked in App's inputs, and how often they are changed
DateInputs == {2, 3, NoDate}
MaxDateChanges == MaxSteps - 1

\* the casual view over the second month, its check and its loads answered
RangeInit ==
    \E tt \in TripTables, now \in {0}, bs \in {{BudgetRow(1, CurrentUser, NoTrip, 1, 1)}} :
        /\ Loaded({}, NoTrip, <<2, 3>>)
        /\ expenses = <<>>
        /\ categoriesTable = <<>>
        /\ tripsTable = tt
        /\ budgets = bs
        /\ categories = <<>>
        /\ grouped = <<>>
        /\ lendedTotal = 0
        /\ borrowedTotal = 0
        /\ totalBudget = LoadTotalBudget(bs, tt, NoTrip, 2, 3)
        /\ trips = <<>>
        /\ tripExpenses = <<>>
        /\ tabCategories = <<>>
        /\ message = ""
        /\ calls = <<>>
        /\ last = Step("mount", None)
        /\ ui = Ui(2, 3, CheckTripsQuery(tt, 2, 3) # {}, now, {}, <<>>, <<>>, "")

rangeFrame == <<storeVars, mounted, trip, expenses, acks, loadFailed, wire, tableVars,
                categories, grouped, lendedTotal, borrowedTotal, tabVars>>

\* a date input of App changes (d = NoDate: it is cleared).  App's effect
\* starts the check when both strings are set; the Dashboard is rendered
\* with the new props and, when its own range strings change, runs its
\* effects: the references, loadRange and loadTotalBudget, the subscription
SetDateStr(s, e) ==
    /\ steps < MaxDateChanges
    /\ <<s, e>> # <<startDateStr, endDateStr>>
    /\ s = startDateStr \/ e = endDateStr
    /\ LET sDash == DashStartDateStr(s, today)
           eDash == DashEndDateStr(e, today)
           moved == <<sDash, eDash>> # <<startDay, endDay>>
           checks == IF Parses(s) /\ Parses(e) THEN <<CheckCall(s, e)>> ELSE <<>>
           sums == IF moved THEN <<BudgetLoadCall(sDash, eDash)>> ELSE <<>>
           new == checks \o sums
           free == CallIds \ DOMAIN calls
       IN /\ Cardinality(free) >= Len(new)
          /\ moved => LoadIds \ DOMAIN loads # {}
          /\ ui' = Merge(ui, [startDateStr |-> s, endDateStr |-> e])
          /\ startDay' = sDash
          /\ endDay' = eDash
          /\ startIsoRef' = StartIso(sDash)
          /\ endIsoRef' = EndIso(eDash)
          /\ loading' = (moved \/ loading)
          /\ loads' = IF moved THEN IssueLoad(loads, FreshLoad, NoTrip, sDash, eDash) ELSE loads
          /\ channels' = IF moved THEN Subscribed(Unsubscribed(channels, channelRef), NoTrip)
                         ELSE channels
          /\ channelRef' = IF moved THEN FreshChannel(Unsubscribed(channels, channelRef))
                           ELSE channelRef
          /\ \E f \in [1..Len(new) -> free] :
                /\ \A i, j \in 1..Len(new) : i < j => f[i] < f[j]
                /\ calls' = [c \in DOMAIN calls \cup {f[i] : i \in 1..Len(new)} |->
                                IF c \in DOMAIN calls THEN calls[c]
                                ELSE new[CHOOSE i \in 1..Len(new) : f[i] = c]]
    /\ steps' = steps + 1
    /\ last' = Step("setDate", [s |-> s, e |-> e])
    /\ UNCHANGED <<rangeFrame, totalBudget>>

\* the count of checkTripsForDateRange is answered
TripsChecked(c, ok) ==
    /\ c \in DOMAIN calls
    /\ calls[c].op = "checkTrips"
    /\ ui' = Merge(ui, [hasTrips |->
                            ok /\ Cardinality(CheckTripsQuery(tripsTable, calls[c].sDay,
                                                               calls[c].eDay)) > 0])
    /\ calls' = Without(calls, c)
    /\ last' = [op |-> "tripsChecked", info |-> [call |-> calls[c], ok |-> ok], alert |-> NoAlert]
    /\ UNCHANGED <<rangeFrame, steps, viewVars, loading, loads, channels, channelRef,
                   totalBudget>>

\* the select of loadTotalBudget is answered: (data || []).reduce(...)
TotalBudgetLoaded(c, ok) ==
    /\ c \in DOMAIN calls
    /\ calls[c].op = "loadTotalBudget"
    /\ totalBudget' = IF ok THEN SumRows(BudgetQuery(budgets, calls[c].months, NoTrip)) ELSE 0
    /\ calls' = Without(calls, c)
    /\ last' = [op |-> "budgetLoaded", info |-> [call |-> calls[c], ok |-> ok], alert |-> NoAlert]
    /\ UNCHANGED <<rangeFrame, steps, viewVars, loading, loads, channels, channelRef, ui>>

RangeNext ==
    \/ \E s, e \in DateInputs : SetDateStr(s, e)
    \/ \E c \in CallIds, ok \in BOOLEAN : TripsChecked(c, ok)
    \/ \E c \in CallIds, ok \in BOOLEAN : TotalBudgetLoaded(c, ok)
    \/ \E lid \in LoadIds, err \in BOOLEAN : AnswerLoad(lid, err)
    \/ \E lid \in LoadIds : DeliverLoad(lid)

RangeSpec == RangeInit /\ [][RangeNext]_allVars

\* ------------------------------------------------ date range: properties
\* the trips loadTripsWithSummary would list for a range
TripList(sDay, eDay) == TripCards(tripsTable, store, budgets, sDay, eDay)

\* C21: a trip is listed for a range exactly when it starts on or before the
\* range's last day and ends on or after its first day, and an answered
\* 'trips active' check sets the prompt exactly when the trip list of the
\* checked range is not empty.
C21_SameOverlapPredicate ==
    [][(last'.op = "tripsChecked" /\ last'.info.ok) =>
        LET s == last'.info.call.sDay
            e == last'.info.call.eDay
        IN /\ \A t \in tripsTable :
                  TripOverlaps(t, s, e) <=> (t.start_date <= e /\ t.end_date >= s)
           /\ hasTrips' <=> (TripList(s, e) # <<>>)]_allVars

\* the second month is checked with a trip from its last day into the third
\* month and a trip of the first month in the table: the prompt is shown
C21_Witness ==
    /\ last.op = "tripsChecked"
    /\ last.info.ok
    /\ <<last.info.call.sDay, last.info.call.eDay>> = <<2, 3>>
    /\ \E a, b \in tripsTable :
          /\ <<a.start_date, a.end_date>> = <<3, 4>>
          /\ <<b.start_date, b.end_date>> = <<0, 1>>
          /\ a.user_id = CurrentUser /\ b.user_id = CurrentUser
    /\ hasTrips
    /\ Len(TripList(2, 3)) = 1

\* C29: when a date string of the range is empty or does not parse, the
\* range-dependent operations send no query to the store and no other range
\* takes the place of the malformed one: the step that makes the range
\* malformed starts no load, no budget load and no trips check, and leaves
\* the Dashboard's range as it was.
C29_MalformedRangeRefused ==
    [][(last'.op = "setDate" /\ ~(Parses(startDateStr') /\ Parses(endDateStr'))) =>
        /\ loads' = loads
        /\ calls' = calls
        /\ <<startDay', endDay'>> = <<startDay, endDay>>]_allVars

\* ========================================================== expense text
\* ExpenseInput.handleSubmit and the categorizer it calls
\* (lib/groqCategorizer).  A text is the sequence of its characters; an
\* amount is counted in hundredths.
Upper == <<"A", "B", "C", "D", "E", "F", "G", "H", "I", "J", "K", "L", "M",
           "N", "O", "P", "Q", "R", "S", "T", "U", "V", "W", "X", "Y", "Z">>
Lower == <<"a", "b", "c", "d", "e", "f", "g", "h", "i", "j", "k", "l", "m",
           "n", "o", "p", "q", "r", "s", "t", "u", "v", "w", "x", "y", "z">>
Digits == <<"0", "1", "2", "3", "4", "5", "6", "7", "8", "9">>
Space == " "

\* String.prototype.toLowerCase
ToLowerCase(s) ==
    [i \in DOMAIN s |->
        IF \E k \in DOMAIN Upper : Upper[k] = s[i]
        THEN Lower[CHOOSE k \in DOMAIN Upper : Upper[k] = s[i]]
        ELSE s[i]]

\* String.prototype.includes
Includes(s, sub) ==
    \E i \in 1..(Len(s) - Len(sub) + 1) : SubSeq(s, i, i + Len(sub) - 1) = sub

RECURSIVE TrimStart(_)
TrimStart(s) == IF s # <<>> /\ Head(s) = Space THEN TrimStart(Tail(s)) ELSE s

RECURSIVE TrimEnd(_)
TrimEnd(s) ==
    IF s # <<>> /\ s[Len(s)] = Space THEN TrimEnd(SubSeq(s, 1, Len(s) - 1)) ELSE s

\* String.prototype.trim
Trim(s) == TrimEnd(TrimStart(s))

RECURSIVE Split(_)
\* s.split(/\s+/)
Split(s) ==
    IF \A i \in DOMAIN s : s[i] # Space THEN <<s>>
    ELSE LET i == CHOOSE k \in DOMAIN s : s[k] = Space /\ \A j \in 1..(k - 1) : s[j] # Space
         IN <<SubSeq(s, 1, i - 1)>> \o Split(TrimStart(SubSeq(s, i, Len(s))))

IsDigit(c) == \E k \in DOMAIN Digits : Digits[k] = c
DigitValue(c) == (CHOOSE k \in DOMAIN Digits : Digits[k] = c) - 1

\* the end of the run of digits that starts at i
RECURSIVE DigitsEnd(_, _)
DigitsEnd(s, i) == IF i < Len(s) /\ IsDigit(s[i + 1]) THEN DigitsEnd(s, i + 1) ELSE i

NoMatch == <<>>
Cents == 100

\* the match of /(\d+(?:\.\d{2})?)/ that starts at i, a digit of s
NumberAt(s, i) ==
    LET j == DigitsEnd(s, i)
        decimal == /\ j + 3 <= Len(s)
                   /\ s[j + 1] = "."
                   /\ IsDigit(s[j + 2])
                   /\ IsDigit(s[j + 3])
    IN SubSeq(s, i, IF decimal THEN j + 3 ELSE j)

\* faulty variant: the match nearest to the end of the text
LastAmountMatch(s) ==
    IF \A i \in DOMAIN s : ~IsDigit(s[i]) THEN NoMatch
    ELSE LET i == CHOOSE k \in DOMAIN s :
                      /\ IsDigit(s[k])
                      /\ (k = 1 \/ ~IsDigit(s[k - 1]))
                      /\ \A j \in (k + 1)..Len(s) : IsDigit(s[j]) => IsDigit(s[j - 1])
         IN NumberAt(s, i)

\* text.match(/(\d+(?:\.\d{2})?)/): the leftmost match, or none
AmountMatch(s) ==
    IF \A i \in DOMAIN s : ~IsDigit(s[i]) THEN NoMatch
    ELSE NumberAt(s, CHOOSE k \in DOMAIN s : IsDigit(s[k]) /\ \A j \in 1..(k - 1) : ~IsDigit(s[j]))

RECURSIVE Whole(_)
\* the value of a run of digits
Whole(ds) == IF ds = <<>> THEN 0 ELSE Whole(SubSeq(ds, 1, Len(ds) - 1)) * 10 + DigitValue(ds[Len(ds)])

\* Number(amountMatch[1]), in hundredths
Number(m) ==
    IF Includes(m, <<".">>)
    THEN Whole(SubSeq(m, 1, Len(m) - 3)) * Cents + Whole(SubSeq(m, Len(m) - 1, Len(m)))
    ELSE Whole(m) * Cents

\* description.replace(/^\d+(?:\.\d{2})?\s*/, '').trim(), on the trimmed text
Description(s) ==
    LET t == Trim(s)
    IN IF t # <<>> /\ IsDigit(t[1])
       THEN Trim(SubSeq(t, Len(NumberAt(t, 1)) + 1, Len(t)))
       ELSE t

\* a faulty variant of Kind: the lending markers are looked for first
KindLendFirst(s) ==
    LET textLower == ToLowerCase(s)
    IN IF \/ Includes(textLower, <<"l", "e", "n">>)
          \/ Includes(textLower, <<"l", "e", "n", "d">>) THEN "lended"
       ELSE IF Includes(textLower, <<"b", "o", "r", "r">>) THEN "borrowed"
       ELSE "expense"

\* the kind of the record: 'borr' is looked for before 'len' and 'lend'
Kind(s) ==
    LET textLower == ToLowerCase(s)
    IN IF Includes(textLower, <<"b", "o", "r", "r">>) THEN "borrowed"
       ELSE IF \/ Includes(textLower, <<"l", "e", "n">>)
               \/ Includes(textLower, <<"l", "e", "n", "d">>) THEN "lended"
       ELSE "expense"

\* manualCategorizeByKeyword's table: the category names with the
\* alternatives of their patterns, in the order of the object's keys
Patterns ==
    <<[category |-> <<"F", "o", "o", "d">>,
       words |-> {
          <<"f", "o", "o", "d">>, <<"e", "a", "t">>, <<"m", "e", "a", "l">>,
          <<"r", "e", "s", "t", "a", "u", "r", "a", "n", "t">>, <<"p", "i", "z", "z", "a">>,
          <<"b", "u", "r", "g", "e", "r">>, <<"l", "u", "n", "c", "h">>,
          <<"b", "r", "e", "a", "k", "f", "a", "s", "t">>, <<"d", "i", "n", "n", "e", "r">>,
          <<"g", "r", "o", "c", "e", "r", "y">>, <<"s", "n", "a", "c", "k">>,
          <<"c", "h", "i", "p", "s">>, <<"c", "h", "o", "c", "o", "l", "a", "t", "e">>,
          <<"c", "o", "f", "f", "e", "e">>, <<"t", "e", "a">>}],
      [category |-> <<"T", "r", "a", "n", "s", "p", "o", "r", "t">>,
       words |-> {
          <<"t", "r", "a", "n", "s", "p", "o", "r", "t">>, <<"t", "a", "x", "i">>,
          <<"u", "b", "e", "r">>, <<"b", "u", "s">>, <<"m", "e", "t", "r", "o">>,
          <<"t", "r", "a", "i", "n">>, <<"f", "l", "i", "g", "h", "t">>, <<"c", "a", "r">>,
          <<"b", "i", "k", "e">>, <<"f", "u", "e", "l">>, <<"g", "a", "s">>,
          <<"p", "a", "r", "k", "i", "n", "g">>, <<"r", "i", "d", "e">>}],
      [category |-> <<"S", "h", "o", "p", "p", "i", "n", "g">>,
       words |-> {
          <<"s", "h", "o", "p">>, <<"b", "u", "y">>, <<"c", "l", "o", "t", "h", "e", "s">>,
          <<"d", "r", "e", "s", "s">>, <<"s", "h", "o", "e", "s">>,
          <<"s", "h", "i", "r", "t">>, <<"p", "a", "n", "t", "s">>,
          <<"j", "a", "c", "k", "e", "t">>, <<"c", "o", "a", "t">>, <<"b", "a", "g">>,
          <<"p", "u", "r", "c", "h", "a", "s", "e">>}],
      [category |-> <<"E", "n", "t", "e", "r", "t", "a", "i", "n", "m", "e", "n", "t">>,
       words |-> {
          <<"m", "o", "v", "i", "e">>, <<"c", "i", "n", "e", "m", "a">>,
          <<"g", "a", "m", "e">>, <<"c", "o", "n", "c", "e", "r", "t">>,
          <<"t", "i", "c", "k", "e", "t">>, <<"s", "h", "o", "w">>,
          <<"e", "n", "t", "e", "r", "t", "a", "i", "n", "m", "e", "n", "t">>,
          <<"p", "a", "r", "t", "y">>, <<"f", "u", "n">>}],
      [category |-> <<"B", "i", "l", "l", "s">>,
       words |-> {
          <<"b", "i", "l", "l">>, <<"e", "l", "e", "c", "t", "r", "i", "c", "i", "t", "y">>,
          <<"w", "a", "t", "e", "r">>, <<"p", "h", "o", "n", "e">>,
          <<"i", "n", "t", "e", "r", "n", "e", "t">>, <<"r", "e", "n", "t">>,
          <<"h", "o", "u", "s", "i", "n", "g">>, <<"u", "t", "i", "l", "i", "t", "y">>,
          <<"s", "u", "b", "s", "c", "r", "i", "p", "t", "i", "o", "n">>,
          <<"m", "e", "m", "b", "e", "r", "s", "h", "i", "p">>}],
      [category |-> <<"H", "e", "a", "l", "t", "h", "c", "a", "r", "e">>,
       words |-> {
          <<"h", "o", "s", "p", "i", "t", "a", "l">>, <<"d", "o", "c", "t", "o", "r">>,
          <<"m", "e", "d", "i", "c", "i", "n", "e">>, <<"m", "e", "d", "i", "c", "a", "l">>,
          <<"h", "e", "a", "l", "t", "h">>, <<"p", "h", "a", "r", "m", "a", "c", "y">>,
          <<"c", "u", "r", "e">>, <<"t", "r", "e", "a", "t", "m", "e", "n", "t">>}],
      [category |-> <<"S", "k", "i", "n", "c", "a", "r", "e">>,
       words |-> {
          <<"s", "k", "i", "n", "c", "a", "r", "e">>,
          <<"f", "a", "c", "e", "w", "a", "s", "h">>, <<"l", "o", "t", "i", "o", "n">>,
          <<"c", "r", "e", "a", "m">>, <<"s", "o", "a", "p">>,
          <<"s", "h", "a", "m", "p", "o", "o">>,
          <<"c", "o", "n", "d", "i", "t", "i", "o", "n", "e", "r">>,
          <<"d", "e", "o", "d", "o", "r", "a", "n", "t">>}],
      [category |-> <<"O", "t", "h", "e", "r">>,
       words |-> {
          <<"o", "t", "h", "e", "r">>, <<"m", "i", "s", "c">>,
          <<"m", "i", "s", "c", "e", "l", "l", "a", "n", "e", "o", "u", "s">>}]>>

OtherName == <<"O", "t", "h", "e", "r">>

\* categories.some(c => c.name.toLowerCase() === categoryName.toLowerCase())
CategoryExists(cats, name) ==
    \E i \in DOMAIN cats : ToLowerCase(cats[i].name) = ToLowerCase(name)

\* pattern.test(textLower)
Test(pattern, textLower) == \E w \in pattern.words : Includes(textLower, w)

\* faulty variant: the pattern table is read from its end
LastPattern(hits) == CHOOSE k \in hits : \A j \in hits : j <= k

\* the entry the for..of loop over Object.entries(patterns) reaches first
FirstPattern(hits) == CHOOSE k \in hits : \A j \in hits : k <= j

\* the keyword fallback; a confidence is counted in hundredths
ManualCategorizeByKeyword(str, cats) ==
    LET textLower == ToLowerCase(str)
        hits == {k \in DOMAIN Patterns : /\ Test(Patterns[k], textLower)
                                         /\ CategoryExists(cats, Patterns[k].category)}
        words == Split(textLower)
        named == {i \in DOMAIN cats :
                     \E w \in DOMAIN words :
                         \/ Includes(words[w], ToLowerCase(cats[i].name))
                         \/ Includes(ToLowerCase(cats[i].name), words[w])}
    IN IF hits # {}
       THEN [category |-> Patterns[FirstPattern(hits)].category, confidence |-> 70,
             reasoning |-> "Matched by keyword pattern"]
       ELSE IF named # {}
       THEN [category |-> cats[CHOOSE i \in named : \A j \in named : i <= j].name,
             confidence |-> 60, reasoning |-> "Matched category name in text"]
       ELSE [category |-> OtherName, confidence |-> 30,
             reasoning |-> "No matching category found"]

\* A response body of the resolver is a sequence of pieces: the braces, the
\* members "category": " Food" (F), "category": 42 (n) and "confidence": 0.9
\* (m), and text that is not JSON (x).
Food == <<"F", "o", "o", "d">>
Pieces == {"{", "}", "F", "n", "m", "x"}
MemberPieces == {"F", "n", "m"}

RECURSIVE IsObject(_), IsMembers(_)
\* JSON.parse(jsonStr) succeeds: an object of members and nested objects
IsObject(s) ==
    /\ Len(s) >= 2
    /\ s[1] = "{"
    /\ s[Len(s)] = "}"
    /\ IsMembers(SubSeq(s, 2, Len(s) - 1))

IsMembers(s) ==
    \/ s = <<>>
    \/ Head(s) \in MemberPieces /\ IsMembers(Tail(s))
    \/ /\ Head(s) = "{"
       /\ \E j \in 2..Len(s) : IsObject(SubSeq(s, 1, j)) /\ IsMembers(SubSeq(s, j + 1, Len(s)))

\* the members of the parsed object itself, not of the objects nested in it
RECURSIVE TopLevel(_, _)
TopLevel(s, depth) ==
    IF s = <<>> THEN <<>>
    ELSE IF Head(s) = "{" THEN TopLevel(Tail(s), depth + 1)
    ELSE IF Head(s) = "}" THEN TopLevel(Tail(s), depth - 1)
    ELSE IF depth = 1 THEN <<Head(s)>> \o TopLevel(Tail(s), depth)
    ELSE TopLevel(Tail(s), depth)

NoIndex == 0

\* content.indexOf('{'), counted from 1
IndexOfBrace(s) ==
    IF \A i \in DOMAIN s : s[i] # "{" THEN NoIndex
    ELSE CHOOSE i \in DOMAIN s : s[i] = "{" /\ \A j \in 1..(i - 1) : s[j] # "{"

RECURSIVE ClosingIndex(_, _, _)
\* the loop that counts braces: the index at which the count returns to zero
ClosingIndex(s, i, braceCount) ==
    IF i > Len(s) THEN NoIndex
    ELSE IF s[i] = "{" THEN ClosingIndex(s, i + 1, braceCount + 1)
    ELSE IF s[i] = "}"
    THEN IF braceCount - 1 = 0 THEN i ELSE ClosingIndex(s, i + 1, braceCount - 1)
    ELSE ClosingIndex(s, i + 1, braceCount)

Unparsed(reasoning) == [category |-> OtherName, confidence |-> 0, reasoning |-> reasoning]

\* the result validated: a string category, else the keyword fallback
Validated(jsonStr, str, cats) ==
    LET result == TopLevel(jsonStr, 0)
    IN IF \E i \in DOMAIN result : result[i] = "F"
       THEN [category |-> Trim(<<Space>> \o Food),
             confidence |-> IF \E i \in DOMAIN result : result[i] = "m" THEN 90 ELSE 80,
             reasoning |-> "Categorized by LLM"]
       ELSE ManualCategorizeByKeyword(str, cats)

\* categorizeExpenseWithLLM after the resolver has answered with a body
ParseContent(body, str, cats) ==
    LET content == IF body = <<>> THEN <<"{", "}">> ELSE body
        jsonStartIndex == IndexOfBrace(content)
        jsonStr == SubSeq(content, jsonStartIndex, Len(content))
        closingIndex == ClosingIndex(jsonStr, 1, 0)
        cut == SubSeq(jsonStr, 1, closingIndex)
    IN IF jsonStartIndex = NoIndex THEN Unparsed("Could not parse LLM response")
       ELSE IF IsObject(jsonStr) THEN Validated(jsonStr, str, cats)
       ELSE IF closingIndex > 1
       THEN IF IsObject(cut) THEN Validated(cut, str, cats)
            ELSE Unparsed("Failed to parse LLM response")
       ELSE Unparsed("Invalid LLM response format")

\* the request to the resolver is sent: a description, categories and a key
Asks(str, cats, key) == Trim(str) # <<>> /\ cats # <<>> /\ key

\* categorizeExpenseWithLLM(expenseDescription, availableCategories); reply
\* is what the resolver does when it is asked
CategorizeExpenseWithLLM(str, cats, key, reply) ==
    IF Trim(str) = <<>> THEN Unparsed("Empty description")
    ELSE IF cats = <<>> THEN ManualCategorizeByKeyword(str, cats)
    ELSE IF ~key THEN ManualCategorizeByKeyword(str, cats)
    ELSE IF reply.throws THEN ManualCategorizeByKeyword(str, cats)
    ELSE ParseContent(reply.content, str, cats)

\* faulty variant: the substring match is tried before the exact match
FindPartialFirst(cats, name) ==
    LET target == ToLowerCase(Trim(name))
        found == {i \in DOMAIN cats : ToLowerCase(cats[i].name) = target}
        partial == {i \in DOMAIN cats : Includes(ToLowerCase(cats[i].name), target)}
        other == {i \in DOMAIN cats : ToLowerCase(cats[i].name) = ToLowerCase(OtherName)}
        First(S) == CHOOSE i \in S : \A j \in S : i <= j
    IN IF name = <<>> THEN NoCategory
       ELSE IF partial # {} THEN cats[First(partial)].id
       ELSE IF found # {} THEN cats[First(found)].id
       ELSE IF other # {} THEN cats[First(other)].id
       ELSE NoCategory

\* ExpenseInput.findCategoryIdByName
FindCategoryIdByName(cats, name) ==
    LET target == ToLowerCase(Trim(name))
        found == {i \in DOMAIN cats : ToLowerCase(cats[i].name) = target}
        partial == {i \in DOMAIN cats : Includes(ToLowerCase(cats[i].name), target)}
        other == {i \in DOMAIN cats : ToLowerCase(cats[i].name) = ToLowerCase(OtherName)}
        First(S) == CHOOSE i \in S : \A j \in S : i <= j
    IN IF name = <<>> THEN NoCategory
       ELSE IF found # {} THEN cats[First(found)].id
       ELSE IF partial # {} THEN cats[First(partial)].id
       ELSE IF other # {} THEN cats[First(other)].id
       ELSE NoCategory

MissingAmount == "Please include an amount in your expense"
InvalidAmount == "Amount must be a positive number."
DateOutOfRange == "Please select a date within the selected range"
Processing == "Processing with AI..."
InsertFailed == "Failed to add expense (db error)."
Added == "Added"

\* the date of the record: the moment of the submission when no range is
\* passed or today lies in it, else the custom date
ExpenseDate(sStr, eStr, customDate, now) ==
    LET todayDate == now \div TicksPerDay
    IN IF sStr # NoDate /\ eStr # NoDate
       THEN IF todayDate >= sStr /\ todayDate <= eStr THEN [ok |-> TRUE, date |-> now]
            ELSE IF customDate = NoDate THEN [ok |-> FALSE, date |-> now]
            ELSE [ok |-> TRUE, date |-> StartIso(customDate)]
       ELSE IF customDate # NoDate THEN [ok |-> TRUE, date |-> StartIso(customDate)]
       ELSE [ok |-> TRUE, date |-> now]

\* ------------------------------------------------- expense text: actions
\* the texts typed: one or two words, the two texts of the scenarios and a
\* text with a lending and a borrowing marker, and one with keywords of two
\* entries of the pattern table
Vocabulary ==
    {<<"2", "5", "0">>,
     <<"0">>,
     <<"1", "2", ".", "5">>,
     <<"7", ".", "2", "5">>,
     <<"l", "u", "n", "c", "h">>,
     <<"t", "a", "x", "i">>,
     <<"B", "o", "r", "r", "o", "w", "e", "d">>,
     <<"l", "e", "n", "d">>,
     <<"r", "a", "j">>}
WordCounts == {1, 2}

RECURSIVE Join(_)
Join(ws) == IF Len(ws) = 1 THEN ws[1] ELSE ws[1] \o <<Space>> \o Join(Tail(ws))

Lunch == <<"2", "5", "0", " ", "l", "u", "n", "c", "h", " ", "w", "i", "t", "h", " ", "f", "r", "i", "e", "n", "d", "s">>
Borrowing == <<"5", "0", "0", " ", "b", "o", "r", "r", "o", "w", "e", "d", " ", "f", "r", "o", "m", " ", "R", "a", "j">>

LendAndBorrow == <<"7", " ", "l", "e", "n", "d", " ", "B", "o", "r", "r", "o", "w", "e", "d">>

TaxiAndLunch == <<"9", " ", "t", "a", "x", "i", " ", "l", "u", "n", "c", "h">>

Texts ==
    {<<>>, <<Space>>, Lunch, Borrowing, LendAndBorrow, TaxiAndLunch}
    \cup {Join(ws) : ws \in UNION {[1..n -> Vocabulary] : n \in WordCounts}}

\* the categories ExpenseInput has loaded, ordered by name
InputCategory(id, name) == [id |-> id, name |-> name]
FastFood == <<"F", "a", "s", "t", " ", "F", "o", "o", "d">>
InputCategoryTables ==
    {<<>>,
     <<InputCategory("c1", FastFood), InputCategory("c2", Food),
       InputCategory("c3", <<"T", "r", "a", "n", "s", "p", "o", "r", "t">>)>>,
     <<InputCategory("c1", Food), InputCategory("c2", OtherName)>>,
     <<InputCategory("c1", FastFood), InputCategory("c2", OtherName)>>}

\* what the resolver does with a request: it fails, or answers with a body
Bodies ==
    {<<>>, <<"x">>, <<"{", "F", "}">>, <<"x", "{", "m", "F", "}">>, <<"{", "F", "}", "x">>,
     <<"{", "F">>, <<"{", "x", "}", "x">>, <<"{", "m", "}">>, <<"{", "n", "}">>,
     <<"{", "m", "{", "F", "}", "}", "x">>}
NoReply == [throws |-> FALSE, content |-> <<>>]
Replies == {[throws |-> TRUE, content |-> <<>>]} \cup {[throws |-> FALSE, content |-> b] : b \in Bodies}

\* the casual view: App's range is the first or the second month, today is
\* the first day, the Dashboard has loaded an empty store and a text is typed
InputInit ==
    \E txt \in Texts, cats \in InputCategoryTables, r \in {<<0, 1>>, <<2, 3>>} :
        /\ Loaded({}, NoTrip, r)
        /\ expenses = <<>>
        /\ categoriesTable = <<>>
        /\ tripsTable = {}
        /\ budgets = {}
        /\ categories = <<>>
        /\ grouped = <<>>
        /\ lendedTotal = 0
        /\ borrowedTotal = 0
        /\ totalBudget = 0
        /\ trips = <<>>
        /\ tripExpenses = <<>>
        /\ tabCategories = <<>>
        /\ message = ""
        /\ calls = <<>>
        /\ last = Step("mount", None)
        /\ ui = Ui(r[1], r[2], FALSE, 0, {}, txt, cats, "")

inputFrame == <<steps, viewVars, loading, loads, channelRef, acks, loadFailed, wire, tableVars,
                dashVars, tabVars>>

\* a handleSubmit call up to its first await
SubmitCall(key) ==
    [op |-> "handleSubmit", pc |-> "categorize", text |-> inputText, key |-> key,
     asked |-> IF Asks(Trim(inputText), inputCategories, key) THEN 1 ELSE 0,
     reply |-> NoReply, parseResponse |-> Unparsed(""), row |-> None,
     inserts |-> 0, events |-> 0]

\* the history entry of a handleSubmit call that has returned
Submitted(rec, ok, msg) == [op |-> rec.op, info |-> [call |-> rec, ok |-> ok], alert |-> msg]

\* the row handleSubmit inserts: the trip_id and the range are those App
\* passes to the casual view's ExpenseInput (no trip, no range)
InsertedRow(rec, parseResponse, now) ==
    LET categoryName == IF parseResponse.category # <<>> THEN parseResponse.category
                        ELSE OtherName
        description == Description(rec.text)
    IN [user_id |-> CurrentUser,
        kind |-> Kind(rec.text),
        amount |-> Number(AmountMatch(rec.text)),
        category_id |-> FindCategoryIdByName(inputCategories, categoryName),
        note |-> IF description = <<>> THEN categoryName ELSE description,
        original_text |-> rec.text,
        date |-> ExpenseDate(NoDate, NoDate, NoDate, now).date,
        trip_id |-> NoTrip]

\* the form is submitted: handleSubmit up to `await categorizeExpenseWithLLM`
HandleSubmit(key) ==
    /\ last.op = "mount"
    /\ calls = <<>>
    /\ IF Trim(inputText) = <<>>
       THEN /\ ui' = Merge(ui, [inputMessage |-> ""])
            /\ calls' = calls
            /\ last' = Submitted(SubmitCall(key), FALSE, "")
       ELSE /\ ui' = Merge(ui, [inputMessage |-> Processing])
            /\ calls' = Started(SubmitCall(key))
            /\ last' = Step("submit", None)
    /\ UNCHANGED <<inputFrame, storeVars, expenses, channels>>

\* the categorizer returns: the amount, the kind and the date are worked
\* out and the insert is sent, or the call returns with a message
Categorized(c, reply, tick) ==
    /\ c \in DOMAIN calls
    /\ calls[c].op = "handleSubmit"
    /\ calls[c].pc = "categorize"
    /\ calls[c].asked = 0 => reply = NoReply
    /\ LET rec == [calls[c] EXCEPT !.reply = reply]
           parseResponse == CategorizeExpenseWithLLM(Trim(rec.text), inputCategories,
                                                     rec.key, reply)
           amountMatch == AmountMatch(rec.text)
           date == ExpenseDate(NoDate, NoDate, NoDate, StartIso(today) + tick)
           returned(msg) ==
               /\ ui' = Merge(ui, [inputMessage |-> msg])
               /\ calls' = Without(calls, c)
               /\ last' = Submitted([rec EXCEPT !.parseResponse = parseResponse], FALSE, msg)
       IN IF amountMatch = NoMatch THEN returned(MissingAmount)
          ELSE IF Number(amountMatch) <= 0 THEN returned(InvalidAmount)
          ELSE IF ~date.ok THEN returned(DateOutOfRange)
          ELSE /\ calls' = [calls EXCEPT ![c] =
                               [rec EXCEPT !.pc = "insert", !.parseResponse = parseResponse,
                                           !.inserts = 1,
                                           !.row = InsertedRow(rec, parseResponse,
                                                               StartIso(today) + tick)]]
               /\ last' = Step("categorized", None)
               /\ UNCHANGED ui
    /\ UNCHANGED <<inputFrame, storeVars, expenses, channels>>

\* the insert is answered: on success the text is cleared, 'expense-added'
\* is dispatched and the Dashboard's listener runs
ExpenseInserted(c, ok) ==
    /\ c \in DOMAIN calls
    /\ calls[c].op = "handleSubmit"
    /\ calls[c].pc = "insert"
    /\ LET row == Merge(calls[c].row, [id |-> nextId])
           rec == [calls[c] EXCEPT !.row = row, !.events = IF ok THEN 1 ELSE 0]
       IN /\ store' = IF ok THEN store \cup {row} ELSE store
          /\ nextId' = IF ok THEN nextId + 1 ELSE nextId
          /\ channels' = IF ok THEN Emit(channels, "INSERT", row, row) ELSE channels
          /\ expenses' = IF ok /\ mounted
                         THEN HandleAdded(expenses, row, CurrentUser, trip, startIsoRef, endIsoRef)
                         ELSE expenses
          /\ ui' = Merge(ui, [inputText |-> IF ok THEN <<>> ELSE inputText,
                              inputMessage |-> IF ok THEN Added ELSE InsertFailed])
          /\ calls' = IF ok THEN [calls EXCEPT ![c] = [rec EXCEPT !.pc = "timer"]]
                      ELSE Without(calls, c)
          /\ last' = Submitted(rec, ok, IF ok THEN Added ELSE InsertFailed)
    /\ UNCHANGED inputFrame

\* 1.5 s after a successful insert the message is cleared
MessageCleared(c) ==
    /\ c \in DOMAIN calls
    /\ calls[c].op = "handleSubmit"
    /\ calls[c].pc = "timer"
    /\ ui' = Merge(ui, [inputMessage |-> ""])
    /\ calls' = Without(calls, c)
    /\ last' = Step("timer", None)
    /\ UNCHANGED <<inputFrame, storeVars, expenses, channels>>

InputNext ==
    \/ \E key \in BOOLEAN : HandleSubmit(key)
    \/ \E c \in CallIds, reply \in Replies, tick \in DayTicks : Categorized(c, reply, tick)
    \/ \E c \in CallIds, ok \in BOOLEAN : ExpenseInserted(c, ok)
    \/ \E c \in CallIds : MessageCleared(c)

InputSpec == InputInit /\ [][InputNext]_allVars

\* ---------------------------------------------- expense text: properties
\* The first numeric token of a text, said without the matcher: it starts at
\* the first digit, takes the digits that follow, and a point with two
\* digits after them.
FirstDigit(s) == CHOOSE i \in DOMAIN s : IsDigit(s[i]) /\ \A j \in 1..(i - 1) : ~IsDigit(s[j])
HasNumericToken(s) == \E i \in DOMAIN s : IsDigit(s[i])
FirstNumericToken(s) ==
    LET i == FirstDigit(s)
        ends == {k \in i..Len(s) : \A l \in i..k : IsDigit(s[l])}
        j == CHOOSE k \in ends : \A l \in ends : l <= k
        fraction == SubSeq(s, j + 1, j + 3)
    IN IF /\ j + 3 <= Len(s)
          /\ fraction[1] = "."
          /\ IsDigit(fraction[2])
          /\ IsDigit(fraction[3])
       THEN SubSeq(s, i, j + 3)
       ELSE SubSeq(s, i, j)

RECURSIVE Pow10(_)
Pow10(n) == IF n = 0 THEN 1 ELSE 10 * Pow10(n - 1)

\* the value of a numeric token, in hundredths
TokenValue(m) ==
    LET point == IF \E i \in DOMAIN m : m[i] = "." THEN CHOOSE i \in DOMAIN m : m[i] = "."
                 ELSE Len(m) + 1
        SumTo[k \in 0..Len(m)] ==
            IF k = 0 THEN 0
            ELSE IF k = point THEN SumTo[k - 1]
            ELSE SumTo[k - 1]
                 + DigitValue(m[k]) * (IF k < point THEN Pow10(point - k + 1)
                                       ELSE Pow10(point + 2 - k))
    IN SumTo[Len(m)]

\* what a handleSubmit call that has returned must have done with its text
AmountRule(call, ok, alert, before, after) ==
    IF ~HasNumericToken(call.text)
    THEN alert = MissingAmount /\ call.inserts = 0 /\ call.events = 0 /\ after = before
    ELSE IF TokenValue(FirstNumericToken(call.text)) <= 0
    THEN alert = InvalidAmount /\ call.inserts = 0 /\ call.events = 0 /\ after = before
    ELSE /\ alert \in {Added, InsertFailed}
         /\ ok => \E r \in after \ before :
                      r.amount = TokenValue(FirstNumericToken(call.text))

\* C22 as stated: a submitted text without a numeric token fails with the
\* missing-amount message, one whose first numeric token is not positive
\* with the invalid-amount message, in both cases with no insert and no
\* 'expense-added' event; otherwise the amount persisted is the value of the
\* first numeric token.
C22_AmountOrMessage ==
    [][last'.op = "handleSubmit" =>
          AmountRule(last'.info.call, last'.info.ok, last'.alert, store, store')]_allVars

\* C22, for a text that is not blank: the same rule; a blank text is not
\* processed at all.
C22_AmountOfText ==
    [][last'.op = "handleSubmit" =>
          IF Trim(last'.info.call.text) = <<>>
          THEN /\ last'.alert = ""
               /\ last'.info.call.inserts = 0
               /\ last'.info.call.events = 0
               /\ store' = store
          ELSE AmountRule(last'.info.call, last'.info.ok, last'.alert, store, store')]_allVars

\* '250 lunch with friends' has been persisted with amount 250
C22_Witness ==
    /\ last.op = "handleSubmit"
    /\ last.info.ok
    /\ last.info.call.text = Lunch
    /\ \E r \in store : r.amount = 250 * Cents /\ r.original_text = Lunch

\* a text mentions a marker when some part of it, in lower case, is the marker
Mentions(s, marker) ==
    \E i \in 1..Len(s) : \E j \in i..Len(s) : ToLowerCase(SubSeq(s, i, j)) = marker
BorrowMarker == <<"b", "o", "r", "r">>
LendMarker == <<"l", "e", "n">>
KindInOrder(s) ==
    IF Mentions(s, BorrowMarker) THEN "borrowed"
    ELSE IF Mentions(s, LendMarker) THEN "lended"
    ELSE "expense"

\* C23: the kind of the row handleSubmit sends is decided in a fixed order:
\* 'borrowed' when the text has a borrowing marker, even beside a lending
\* marker; otherwise 'lended' when it has a lending marker; otherwise
\* 'expense'. It is a function of the text alone, whatever the categorizer
\* answered, and the row persisted carries that kind.
C23_KindOrder ==
    [][last'.op = "handleSubmit" /\ last'.info.call.inserts = 1 =>
          /\ last'.info.call.row.kind = KindInOrder(last'.info.call.text)
          /\ last'.info.ok =>
                 \E r \in store' \ store : /\ r.original_text = last'.info.call.text
                                           /\ r.kind = KindInOrder(r.original_text)]_allVars

\* '500 borrowed from Raj' has been persisted with kind borrowed and amount
\* 500 under a category the categorizer resolved
C23_Witness ==
    /\ last.op = "handleSubmit"
    /\ last.info.ok
    /\ last.info.call.text = Borrowing
    /\ last.info.call.parseResponse.category = Food
    /\ \E r \in store : r.kind = "borrowed" /\ r.amount = 500 * Cents

\* the resolver has answered with a category: it was asked, did not throw,
\* and its content from the first brace on is an object with a string
\* category, as a whole or cut at the brace that balances the first
ResolverAnswered(rec, cats) ==
    /\ Asks(Trim(rec.text), cats, rec.key)
    /\ ~rec.reply.throws
    /\ LET content == rec.reply.content
           from == IndexOfBrace(content)
       IN /\ from # NoIndex
          /\ \E to \in from..Len(content) :
                 /\ IsObject(SubSeq(content, from, to))
                 /\ \E i \in DOMAIN TopLevel(SubSeq(content, from, to), 0) :
                        TopLevel(SubSeq(content, from, to), 0)[i] = "F"

\* C24: whenever the resolver is unavailable, throws, or returns a body
\* from which no object with a string category is recovered, the result of
\* categorizeExpenseWithLLM is exactly that of manualCategorizeByKeyword for
\* the same text and categories, and the resolver is asked at most once.
C24_FallbackOnEveryFailure ==
    \A c \in DOMAIN calls :
        calls[c].op = "handleSubmit" /\ calls[c].pc = "insert" =>
            /\ calls[c].asked <= 1
            /\ ~ResolverAnswered(calls[c], inputCategories) =>
                   calls[c].parseResponse
                       = ManualCategorizeByKeyword(Trim(calls[c].text), inputCategories)

\* the calls in which categorizeExpenseWithLLM went to the keyword fallback
\* because there was no key or the resolver threw
FellBack(rec) == rec.op = "handleSubmit" /\ rec.pc = "insert" /\ (~rec.key \/ rec.reply.throws)

\* the entries of the pattern table a text matches, and the available
\* categories whose name is in a word of the text or has a word of it
MatchingEntries(str) == {k \in DOMAIN Patterns : Test(Patterns[k], ToLowerCase(str))}
AvailableEntries(str, cats) ==
    {k \in MatchingEntries(str) : CategoryExists(cats, Patterns[k].category)}
NamedCategories(str, cats) ==
    LET words == Split(ToLowerCase(str))
    IN {i \in DOMAIN cats : \E w \in DOMAIN words :
                                \/ Includes(words[w], ToLowerCase(cats[i].name))
                                \/ Includes(ToLowerCase(cats[i].name), words[w])}
Least(S) == CHOOSE k \in S : \A j \in S : k <= j

\* the three outcomes of the fallback, the table being read through entries
FallbackRule(r, str, cats, entries) ==
    IF entries # {}
    THEN r.category = Patterns[Least(entries)].category /\ r.confidence > 60
    ELSE IF NamedCategories(str, cats) # {}
    THEN r.category = cats[Least(NamedCategories(str, cats))].name /\ r.confidence = 60
    ELSE r.category = OtherName /\ r.confidence < 60

C26_DateInsideRange ==
    [][last'.op = "handleSubmit" /\ Trim(last'.info.call.text) # <<>>
           /\ last'.alert \notin {MissingAmount, InvalidAmount} =>
          IF today >= startDateStr /\ today <= endDateStr
          THEN /\ last'.info.call.inserts = 1
               /\ last'.info.call.row.date >= StartIso(startDateStr)
               /\ last'.info.call.row.date <= EndIso(endDateStr)
          ELSE /\ last'.alert = DateOutOfRange
               /\ last'.info.call.inserts = 0
               /\ store' = store]_allVars

\* ------------------------------------------- expense mutations: actions
\* The casual Dashboard with its selection, and the ExpenseInput beside it.
\* These runs are the handlers' own steps: the changes the store pushes
\* stay queued on the channel (their delivery is the subject of Spec).
\* An edit's date comes from a datetime-local input, to which submitEdit
\* appends ':00.000Z': the instants it can give are whole minutes, of which
\* the model has the first instant of each day.
MinuteTimes == {StartIso(d) : d \in Days}

\* the requests sent in a run
MaxMutations == MaxSteps - 1

\* faulty variant: the local change is applied whatever the store answered
AppliedAlways(ok, after, before) == after

\* `if (error) { alert(...) } else { <local change> }`
Applied(ok, after, before) == IF ok THEN after ELSE before

MutationRow(id, date) ==
    Merge(Row(id, CurrentUser, NoTrip, date, 1, <<"a">>),
          [kind |-> "expense", category_id |-> NoCategory, original_text |-> <<"1", " ", "a">>])
MutationStores ==
    {{MutationRow(1, StartIso(0))},
     {MutationRow(1, StartIso(0)), MutationRow(2, EndIso(1))}}

UpdateFailed == "Update failed"
DeleteFailed == "Delete failed"

MutationInit ==
    \E st \in MutationStores :
        /\ Loaded(st, NoTrip, <<0, 1>>)
        /\ expenses = QueryExpenses(st, CurrentUser, NoTrip, 0, 1)
        /\ categoriesTable = <<>>
        /\ tripsTable = {}
        /\ budgets = {}
        /\ categories = <<>>
        /\ grouped = <<>>
        /\ lendedTotal = 0
        /\ borrowedTotal = 0
        /\ totalBudget = 0
        /\ trips = <<>>
        /\ tripExpenses = <<>>
        /\ tabCategories = <<>>
        /\ message = ""
        /\ calls = <<>>
        /\ last = Step("mount", None)
        /\ ui = Ui(0, 1, FALSE, 0, {}, <<"2", "5", "0">>, <<>>, "")

mutationFrame == <<viewVars, loading, loads, channelRef, acks, loadFailed, wire, tableVars,
                   dashVars, tabVars>>

\* a call of a Dashboard handler up to its await; `selected` is the
\* selection the handler's closure holds
MutationCall(op, ids, fields) ==
    [op |-> op, pc |-> "store", ids |-> ids, fields |-> fields, selected |-> selectedExpenses]

Begun(rec) == (FreshCall :> rec) @@ calls

Toggled(prev, id) == IF id \in prev THEN prev \ {id} ELSE prev \cup {id}

\* a request of a handler is sent: nothing is changed locally (the runs
\* have one request in flight at a time)
Requested(rec) ==
    /\ steps < MaxMutations
    /\ calls = <<>>
    /\ calls' = Begun(rec)
    /\ steps' = steps + 1
    /\ last' = Step("request", [op |-> rec.op])
    /\ UNCHANGED <<mutationFrame, storeVars, expenses, channels, ui>>

\* a handler's request is answered
Answers(c, op) == c \in DOMAIN calls /\ calls[c].op = op /\ calls[c].pc = "store"

\* a checkbox of a row is clicked
ToggleSelect(id) ==
    /\ id \in SeqIds(expenses)
    /\ ui' = Merge(ui, [selectedExpenses |-> Toggled(selectedExpenses, id)])
    /\ last' = Step("toggle", None)
    /\ UNCHANGED <<mutationFrame, storeVars, steps, expenses, channels, calls>>

\* deleteMultiple up to `await supabase.from('expenses').delete().in('id', ids)`
DeleteMultiple ==
    /\ selectedExpenses # {}
    /\ Requested(MutationCall("deleteMultiple", selectedExpenses, None))

\* deleteMultiple after the await
MultipleDeleted(c, ok) ==
    /\ Answers(c, "deleteMultiple")
    /\ LET ids == calls[c].ids
           gone == {r \in store : r.id \in ids}
       IN /\ store' = IF ok THEN store \ gone ELSE store
          /\ channels' = IF ok THEN EmitAll(channels, "DELETE", gone) ELSE channels
          /\ expenses' = Applied(ok, SelectSeq(expenses, LAMBDA r : r.id \notin ids), expenses)
          /\ ui' = Merge(ui, [selectedExpenses |-> Applied(ok, {}, selectedExpenses)])
          /\ last' = Ended(calls[c], ok, IF ok THEN NoAlert ELSE DeleteFailed)
    /\ calls' = Without(calls, c)
    /\ UNCHANGED <<mutationFrame, nextId, steps>>

\* the edit modal of a held row is saved with a date and an amount:
\* submitEdit up to `await supabase.from('expenses').update(updateData).eq('id', id)`
SubmitEdit(id, date, amount) ==
    /\ id \in SeqIds(expenses)
    /\ LET row == expenses[CHOOSE i \in DOMAIN expenses : expenses[i].id = id]
           updateData == Merge(Restrict(row, (DOMAIN row) \ {"id"}),
                               [date |-> date, amount |-> amount])
       IN Requested(MutationCall("submitEdit", {id}, updateData))

\* submitEdit after the await
EditSaved(c, ok) ==
    /\ Answers(c, "submitEdit")
    /\ LET id == CHOOSE i \in calls[c].ids : TRUE
           updateData == calls[c].fields
           hit == {r \in store : r.id = id}
           new == {Merge(r, updateData) : r \in hit}
       IN /\ store' = IF ok THEN (store \ hit) \cup new ELSE store
          /\ channels' = IF ok THEN EmitAll(channels, "UPDATE", new) ELSE channels
          /\ expenses' = Applied(ok, MapMerge(expenses, id, updateData), expenses)
          /\ last' = Ended(calls[c], ok, IF ok THEN NoAlert ELSE UpdateFailed)
    /\ calls' = Without(calls, c)
    /\ UNCHANGED <<mutationFrame, nextId, steps, ui>>

\* deleteExpense up to `await supabase.from('expenses').delete().eq('id', row.id)`
DeleteExpense(id) ==
    /\ id \in SeqIds(expenses)
    /\ Requested(MutationCall("deleteExpense", {id}, None))

\* faulty variant of deleteExpense after the await: the filter is applied to
\* the collection of the time the handler was called
ExpenseDeletedStale(c, ok) ==
    /\ Answers(c, "deleteExpense")
    /\ LET id == CHOOSE i \in calls[c].ids : TRUE
           gone == {r \in store : r.id = id}
           stale == IF "began" \in DOMAIN calls[c] THEN calls[c].began ELSE expenses
       IN /\ store' = IF ok THEN store \ gone ELSE store
          /\ channels' = IF ok THEN EmitAll(channels, "DELETE", gone) ELSE channels
          /\ expenses' = Applied(ok, FilterOut(stale, id), expenses)
          /\ ui' = Merge(ui, [selectedExpenses |->
                                  Applied(ok, IF id \in calls[c].selected
                                              THEN Toggled(selectedExpenses, id)
                                              ELSE selectedExpenses,
                                          selectedExpenses)])
          /\ last' = Ended(calls[c], ok, IF ok THEN NoAlert ELSE DeleteFailed)
    /\ calls' = Without(calls, c)
    /\ UNCHANGED <<mutationFrame, nextId, steps>>

\* deleteExpense after the await
ExpenseDeleted(c, ok) ==
    /\ Answers(c, "deleteExpense")
    /\ LET id == CHOOSE i \in calls[c].ids : TRUE
           gone == {r \in store : r.id = id}
       IN /\ store' = IF ok THEN store \ gone ELSE store
          /\ channels' = IF ok THEN EmitAll(channels, "DELETE", gone) ELSE channels
          /\ expenses' = Applied(ok, FilterOut(expenses, id), expenses)
          /\ ui' = Merge(ui, [selectedExpenses |->
                                  Applied(ok, IF id \in calls[c].selected
                                              THEN Toggled(selectedExpenses, id)
                                              ELSE selectedExpenses,
                                          selectedExpenses)])
          /\ last' = Ended(calls[c], ok, IF ok THEN NoAlert ELSE DeleteFailed)
    /\ calls' = Without(calls, c)
    /\ UNCHANGED <<mutationFrame, nextId, steps>>

MutationNext ==
    \/ \E id \in Ids : ToggleSelect(id)
    \/ DeleteMultiple
    \/ \E c \in CallIds, ok \in BOOLEAN : MultipleDeleted(c, ok)
    \/ \E id \in Ids, d \in MinuteTimes : SubmitEdit(id, d, 2)
    \/ \E c \in CallIds, ok \in BOOLEAN : EditSaved(c, ok)
    \/ \E id \in Ids : DeleteExpense(id)
    \/ \E c \in CallIds, ok \in BOOLEAN : ExpenseDeleted(c, ok)
    \/ \E key \in BOOLEAN : HandleSubmit(key)
    \/ \E c \in CallIds, tick \in DayTicks : Categorized(c, NoReply, tick)
    \/ \E c \in CallIds, ok \in BOOLEAN : ExpenseInserted(c, ok)
    \/ \E c \in CallIds : MessageCleared(c)

MutationSpec == MutationInit /\ [][MutationNext]_allVars

\* ---------------------------------------- expense mutations: properties
Mutations == {"handleSubmit", "submitEdit", "deleteExpense", "deleteMultiple"}

\* C27: when the store answers a user's add, edit, delete or bulk delete
\* with an error, the collection and the selection are left as they were;
\* sending the request changes neither, so that the local change is made
\* only on a successful answer.
C27_FailedMutationChangesNothing ==
    [][/\ last'.op \in Mutations /\ ~last'.info.ok =>
              expenses' = expenses /\ selectedExpenses' = selectedExpenses
       /\ last'.op \in {"request", "submit", "categorized"} =>
              expenses' = expenses /\ selectedExpenses' = selectedExpenses
       /\ expenses' # expenses => last'.op \in Mutations /\ last'.info.ok
       /\ selectedExpenses' # selectedExpenses =>
              last'.op = "toggle" \/ (last'.op \in Mutations /\ last'.info.ok)]_allVars

\* a bulk delete of a selection has been refused by the store while rows
\* were held and selected
C27_Witness ==
    /\ last.op = "deleteMultiple"
    /\ ~last.info.ok
    /\ last.alert = DeleteFailed
    /\ last.info.call.ids # {}
    /\ selectedExpenses = last.info.call.ids
    /\ \A id \in last.info.call.ids : HasId(expenses, id)

\* C28: a mutation ends in one explicit outcome: when a store call it made
\* returned an error, a failure message or alert is shown and no success is
\* reported.  For saveBudget the store calls are the delete and the insert,
\* for setTripBudget the update or insert.
C28_StoreErrorReported ==
    [][/\ last'.op = "saveBudget" /\ ~last'.info.call.deleted =>
              ~last'.info.ok /\ last'.alert # NoAlert /\ totalBudget' = totalBudget
       /\ last'.op \in {"saveBudget", "setTripBudget"} /\ ~last'.info.ok =>
              last'.alert # NoAlert]_allVars

\* the pushed change a step has delivered is about id, with one of events
Delivered(l, id, events) ==
    l.op = "notify" /\ l.info.n.row.id = id /\ l.info.n.event \in events

\* C30: while the view stays the same, a record becomes present only through
\* a bulk load or an insert, optimistic or pushed, and becomes absent only
\* through a pushed delete or a pushed update whose date is out of the range
\* (a failed load empties the collection); an UPDATE or DELETE notification
\* for an identifier that is not held leaves the collection unchanged.
C30_PresenceTransitions ==
    [][mounted /\ mounted' /\ trip' = trip /\ startDay' = startDay /\ endDay' = endDay =>
          \A id \in Ids :
              /\ ~HasId(expenses, id) /\ HasId(expenses', id) =>
                     \/ last'.op \in {"loadOk", "added"}
                     \/ Delivered(last', id, {"INSERT"})
              /\ HasId(expenses, id) /\ ~HasId(expenses', id) =>
                     \/ last'.op = "loadError"
                     \/ Delivered(last', id, {"DELETE"})
                     \/ /\ Delivered(last', id, {"UPDATE"})
                        /\ \/ last'.info.n.row.date < startIsoRef
                           \/ last'.info.n.row.date > endIsoRef
              /\ Delivered(last', id, {"UPDATE", "DELETE"}) /\ ~HasId(expenses, id) =>
                     expenses' = expenses]_allVars

\* the categories whose name is the resolved name, and those whose name
\* contains it, letter case apart
NamedExactly(cats, name) ==
    {i \in DOMAIN cats : ToLowerCase(cats[i].name) = ToLowerCase(Trim(name))}
NamedAround(cats, name) ==
    {i \in DOMAIN cats : Mentions(cats[i].name, ToLowerCase(Trim(name)))}
NamedOther(cats) == {i \in DOMAIN cats : ToLowerCase(cats[i].name) = <<"o", "t", "h", "e", "r">>}

\* the name handleSubmit resolves: parseResponse.category || 'Other'
ResolvedName(rec) ==
    IF rec.parseResponse.category # <<>> THEN rec.parseResponse.category ELSE OtherName

\* C33: the category_id of the row sent is that of the first category named
\* exactly as the resolved name, letter case apart; else of the first whose
\* name contains it; else of the category 'Other'; else null.  An exact
\* match wins over a substring match, and null is given only when there is
\* no 'Other'.
C33_NameToIdentifier ==
    \A c \in DOMAIN calls :
        calls[c].op = "handleSubmit" /\ calls[c].pc = "insert" =>
            LET name == ResolvedName(calls[c])
                exact == NamedExactly(inputCategories, name)
                around == NamedAround(inputCategories, name)
                other == NamedOther(inputCategories)
                id == calls[c].row.category_id
            IN /\ IF exact # {} THEN id = inputCategories[Least(exact)].id
                  ELSE IF around # {} THEN id = inputCategories[Least(around)].id
                  ELSE IF other # {} THEN id = inputCategories[Least(other)].id
                  ELSE id = NoCategory
               /\ id = NoCategory => other = {}

\* the resolver said Food while 'Fast Food' stands before 'Food' in the
\* categories: the row carries the identifier of 'Food'
C33_Witness ==
    \E c \in DOMAIN calls :
        /\ calls[c].op = "handleSubmit"
        /\ calls[c].pc = "insert"
        /\ ResolvedName(calls[c]) = Food
        /\ Len(inputCategories) = 3
        /\ inputCategories[1].name = FastFood
        /\ calls[c].row.category_id = "c2"

\* ---------------------------------------------------------------------------
\* getMonthsInRange on calendar dates (Dashboard.jsx 21-30).  A date is its
\* local year, zero-based month and day of the month; a bucket 'yyyy-MM' is
\* the pair of the year and the one-based month number.
\* ---------------------------------------------------------------------------

CalendarYears == {2024, 2025, 2026}
MonthsOfYear == 0 .. 11
DatesOfMonth == {1, 28}
CalendarDates == [year : CalendarYears, month : MonthsOfYear, date : DatesOfMonth]

\* new Date(d.getFullYear(), d.getMonth(), 1)
FirstOfMonth(d) == [year |-> d.year, month |-> d.month, date |-> 1]

\* Date.prototype.setMonth: a month past December carries into the year.
SetMonth(d, m) ==
    [d EXCEPT !.year = @ + (m \div Cardinality(MonthsOfYear)),
              !.month = m % Cardinality(MonthsOfYear)]

\* format(current, 'yyyy-MM')
FormatYearMonth(d) == <<d.year, d.month + 1>>

\* a < b as instants
EarlierDate(a, b) ==
    \/ a.year < b.year
    \/ a.year = b.year /\ a.month < b.month
    \/ a.year = b.year /\ a.month = b.month /\ a.date < b.date

\* a <= b as instants
NotAfter(a, b) == EarlierDate(a, b) \/ a = b

\* the while loop of lines 25-28
RECURSIVE MonthsLoop(_, _, _)
MonthsLoop(current, endMonthStart, months) ==
    IF NotAfter(current, endMonthStart)
    THEN MonthsLoop(SetMonth(current, current.month + 1), endMonthStart,
                    Append(months, FormatYearMonth(current)))
    ELSE months

MonthsBetween(start, end) == MonthsLoop(FirstOfMonth(start), FirstOfMonth(end), <<>>)

CalendarInit ==
    \E start, end \in CalendarDates :
        /\ store = {}
        /\ nextId = 1
        /\ steps = 0
        /\ mounted = TRUE
        /\ trip = NoTrip
        /\ startDay = 0
        /\ endDay = 0
        /\ startIsoRef = 0
        /\ endIsoRef = 0
        /\ expenses = <<>>
        /\ loading = FALSE
        /\ loads = <<>>
        /\ channels = <<>>
        /\ channelRef = NoChannel
        /\ acks = {}
        /\ loadFailed = FALSE
        /\ last = Step("dates", [start |-> start, end |-> end])
        /\ wire = "iso"
        /\ IdleState

calendarFrame == <<store, nextId, steps, viewVars, expenses, loading, loads, channels,
                   channelRef, acks, loadFailed, wire, tableVars, dashVars, tabVars,
                   calls, formVars>>

\* loadTotalBudget computes the months of the range (lines 159-160)
GetMonths ==
    /\ last.op = "dates"
    /\ last' = Step("months", [start |-> last.info.start, end |-> last.info.end,
                               months |-> MonthsBetween(last.info.start, last.info.end)])
    /\ UNCHANGED calendarFrame

CalendarNext == GetMonths

CalendarSpec == CalendarInit /\ [][CalendarNext]_allVars

\* index of a month counted from year 0, and the bucket of an index
MonthIndex(d) == d.year * Cardinality(MonthsOfYear) + d.month
BucketAt(k) == <<k \div Cardinality(MonthsOfYear), (k % Cardinality(MonthsOfYear)) + 1>>

\* C34: for start <= end, getMonthsInRange returns the year-month buckets
\* from the start's month to the end's month inclusive, ascending, each
\* exactly once and none skipped, so their number is
\* 12*(endYear-startYear) + (endMonth-startMonth) + 1; the loop ends for every
\* input (its result is a finite sequence).
C34_MonthBuckets ==
    last.op = "months" =>
        LET start == last.info.start
            end == last.info.end
            months == last.info.months
            n == 12 * (end.year - start.year) + (end.month - start.month) + 1
        IN  /\ Len(months) \in Nat
            /\ NotAfter(start, end) =>
                /\ Len(months) = n
                /\ \A i \in 1 .. n : months[i] = BucketAt(MonthIndex(start) + i - 1)
                /\ months[1] = <<start.year, start.month + 1>>
                /\ months[n] = <<end.year, end.month + 1>>

\* a range from November of one year to February of the next: four buckets
\* across the year's end
C34_Witness ==
    /\ last.op = "months"
    /\ last.info.start.month = 10
    /\ last.info.end.month = 1
    /\ last.info.end.year = last.info.start.year + 1
    /\ last.info.months = <<<<last.info.start.year, 11>>, <<last.info.start.year, 12>>,
                            <<last.info.end.year, 1>>, <<last.info.end.year, 2>>>>

\* ------------------------------------------------ admit decision
\* a handler put row r at the head of the collection prev
Prepended(prev, after, r) == after = <<r>> \o prev

\* C32: for every inserted row of the Dashboard's owner and context, the
\* pushed-INSERT handler and the 'expense-added' handler take the same
\* decision: each admits the row exactly when no record with its identifier
\* is held and start bound <= its timestamp <= end bound as instants, however
\* the payload spells the timestamp.
C32_SameAdmitDecision ==
    \A r \in PushedRows[trip] :
        LET admit == ~HasId(expenses, r.id) /\ startIsoRef <= r.date /\ r.date <= endIsoRef
            pushed == OnInsert(expenses, r, startIsoRef, endIsoRef)
            added == HandleAdded(expenses, r, CurrentUser, trip, startIsoRef, endIsoRef)
        IN /\ Prepended(expenses, added, r) <=> admit
           /\ Prepended(expenses, pushed, r) <=> admit
           /\ Prepended(expenses, pushed, r) <=> Prepended(expenses, added, r)

\* ---------------------------------------------------------------------------
\* Overlapping handlers of one Dashboard.  Two requests may be in flight at
\* once, and the notifications the store pushes and the 'expense-added'
\* event arrive between a handler's request and its completion.
\* ---------------------------------------------------------------------------

\* one category and no 'Other': deleteCategory goes straight to its delete
OverlapCategories == [c \in {"c1"} |-> "Food"]
OverlapRow(id, date) == Merge(MutationRow(id, date), [category_id |-> "c1"])
OverlapStore == {OverlapRow(1, StartIso(0)), OverlapRow(2, EndIso(0))}

\* the casual Dashboard showing day 0, its two rows of one category loaded
\* and the first ticked
OverlapInit ==
    /\ Loaded(OverlapStore, NoTrip, <<0, 0>>)
    /\ expenses = LoadedRows(OverlapStore, NoTrip, 0, 0)
    /\ categoriesTable = OverlapCategories
    /\ tripsTable = {}
    /\ budgets = {}
    /\ categories = OverlapCategories
    /\ grouped = Grouped(expenses, OverlapCategories)
    /\ lendedTotal = 0
    /\ borrowedTotal = 0
    /\ totalBudget = 0
    /\ trips = <<>>
    /\ tripExpenses = <<>>
    /\ tabCategories = <<>>
    /\ message = ""
    /\ calls = <<>>
    /\ last = Step("mount", None)
    /\ ui = Ui(0, 0, FALSE, 0, {1}, <<"2", "5", "0">>, <<>>, "")

\* a call of a Dashboard handler up to its await, while another call may be
\* in flight; `began` is history: the collection when the handler was called
OverlapCall(op, ids, fields) ==
    /\ steps < Cardinality(CallIds)
    /\ CallIds \ DOMAIN calls # {}
    /\ calls' = Started(Merge(MutationCall(op, ids, fields),
                              [began |-> expenses, solo |-> calls = <<>>]))
    /\ steps' = steps + 1
    /\ last' = Step("request", [op |-> op])
    /\ UNCHANGED <<mutationFrame, storeVars, expenses, channels, ui>>

\* deleteMultiple up to its await
OverlapDeleteMultiple ==
    /\ selectedExpenses # {}
    /\ OverlapCall("deleteMultiple", selectedExpenses, None)

\* submitEdit up to its await
OverlapSubmitEdit(id, date) ==
    /\ id \in SeqIds(expenses)
    /\ LET row == expenses[CHOOSE i \in DOMAIN expenses : expenses[i].id = id]
       IN OverlapCall("submitEdit", {id},
                      Merge(Restrict(row, (DOMAIN row) \ {"id"}), [date |-> date]))

\* deleteExpense up to its await
OverlapDeleteExpense(id) ==
    /\ id \in SeqIds(expenses)
    /\ OverlapCall("deleteExpense", {id}, None)

OverlapNext ==
    \/ OverlapDeleteMultiple
    \/ \E c \in CallIds, ok \in BOOLEAN : MultipleDeleted(c, ok)
    \/ \E id \in Ids, d \in MinuteTimes : OverlapSubmitEdit(id, d)
    \/ \E c \in CallIds, ok \in BOOLEAN : EditSaved(c, ok)
    \/ \E id \in Ids : OverlapDeleteExpense(id)
    \/ \E c \in CallIds, ok \in BOOLEAN : ExpenseDeleted(c, ok)
    \/ \E cat \in CatIds : DeleteCategory(cat)
    \/ \E c \in CallIds, ok \in BOOLEAN : RemoveCategory(c, ok)
    \/ HandleSubmit(FALSE)
    \/ \E c \in CallIds : Categorized(c, NoReply, 0)
    \/ \E c \in CallIds, ok \in BOOLEAN : ExpenseInserted(c, ok)
    \/ \E c \in CallIds : MessageCleared(c)
    \/ DeliverNotification(channelRef)

OverlapSpec == OverlapInit /\ [][OverlapNext]_allVars

\* ---------------------------------------- overlapping handlers: properties
\* the records of a collection other than those with an identifier in T
Untouched(s, T) == SelectSeq(s, LAMBDA r : r.id \notin T)

\* the identifiers of the records a finished handler or a delivered event
\* is about; l is the step's record, s the collection before the step
Touched(l, s) ==
    IF l.op \in {"submitEdit", "deleteExpense", "deleteMultiple"} THEN l.info.call.ids
    ELSE IF l.op = "deleteCategory"
         THEN {s[i].id : i \in {j \in DOMAIN s : s[j].category_id = l.info.call.cat}}
    ELSE IF l.op = "notify" THEN {l.info.n.row.id}
    ELSE IF l.op = "handleSubmit" /\ l.info.ok THEN {l.info.call.row.id}
    ELSE {}

\* C31: no collection update is lost.  Every pushed insert, update or
\* delete, optimistic insert, and completion of a local edit, delete, bulk
\* delete or category delete changes the collection as the previous step
\* left it: the records it is not about stay as they were, in their order,
\* and its own change is made to the current records, never to the
\* collection of the time the handler was called.
C31_NoLostUpdate ==
    [][LET l == last'
           T == Touched(l, expenses)
       IN /\ Untouched(expenses', T) = Untouched(expenses, T)
          /\ l.op \in {"deleteExpense", "deleteMultiple"} /\ l.info.ok =>
                 \A id \in T : ~HasId(expenses', id)
          /\ l.op = "submitEdit" /\ l.info.ok =>
                 /\ Len(expenses') = Len(expenses)
                 /\ \A i \in DOMAIN expenses :
                        expenses[i].id \in T =>
                            expenses'[i] = Merge(expenses[i], l.info.call.fields)
          /\ l.op = "deleteCategory" /\ l.info.ok =>
                 /\ Len(expenses') = Len(expenses)
                 /\ \A i \in DOMAIN expenses :
                        expenses[i].id \in T =>
                            expenses'[i] = [expenses[i] EXCEPT !.category_id = l.info.call.other]
          /\ l.op = "handleSubmit" /\ l.info.ok /\ ~HasId(expenses, l.info.call.row.id) =>
                 expenses' = <<l.info.call.row>> \o expenses
          /\ l.op \in Mutations \cup {"deleteCategory"} /\ ~l.info.ok =>
                 expenses' = expenses]_allVars

\* a delete finished after another handler had removed another record during
\* its suspension: the collection it began with held a record that is neither
\* the deleted one nor held now
C31_Witness ==
    /\ last.op = "deleteExpense"
    /\ last.info.ok
    /\ ~last.info.call.solo
    /\ \E i \in DOMAIN last.info.call.began :
          /\ last.info.call.began[i].id \notin last.info.call.ids
          /\ ~HasId(expenses, last.info.call.began[i].id)
    /\ \A id \in last.info.call.ids : ~HasId(expenses, id)

\* C35: whenever no bulk load is in flight, every record of the Dashboard's
\* collection has a timestamp inside the active range and the trip
\* reference of the active view; in particular right after a successful
\* local edit that changes a record's date.
C35_CollectionInsideView ==
    (mounted /\ ~loading /\ loads = <<>>) =>
        \A i \in DOMAIN expenses :
            /\ startIsoRef <= expenses[i].date
            /\ expenses[i].date <= endIsoRef
            /\ expenses[i].trip_id = trip

\* C36: the selected identifiers are always identifiers of records of the
\* current collection, so that deleteMultiple deletes only records in view;
\* also after a pushed DELETE and after a pushed UPDATE that evicts a
\* selected record.
C36_SelectionInCollection ==
    /\ selectedExpenses \subseteq SeqIds(expenses)
    /\ \A c \in DOMAIN calls :
          calls[c].op = "deleteMultiple" => calls[c].ids \subseteq SeqIds(calls[c].began)

\* ---------------------------------------------------------------------------
\* The App's tabs and its selected trip (App.jsx 13-14, 147-159, 255-305).
\* `view` and `currentTrip` are fields of ui.  The TripsTab is rendered in
\* the trips view only; when it is unmounted its state is gone, but the
\* handlers it started go on and still call the callbacks App gave them.
\* The Dashboard of the selected trip keeps its own state, which is not
\* followed here.  The runs leave the trips view only while no call other
\* than createTrip is in flight.
\* ---------------------------------------------------------------------------

view == ui.view                 \* App: 'casual' or 'trips'
currentTrip == ui.currentTrip   \* App: the identifier of the selected trip, or NoTrip

AppUi(v, t) ==
    Merge(Ui(0, 1, FALSE, 0, {}, <<>>, <<>>, ""), [view |-> v, currentTrip |-> t])

\* `{currentTrip && <><ExpenseInput trip_id={currentTrip.id} /><Dashboard trip={currentTrip} /></>}`
\* inside `{view === 'trips' && ...}`: the trip the two components are bound to
BoundTrip == IF view = "trips" THEN currentTrip ELSE NoTrip

StoredTrips == {t.id : t \in tripsTable}

\* the identifiers the store can hand out in a run
AppTripIds == 1 .. (MaxSteps + 3)

\* the App just opened on the casual view, one trip in the store
AppInit ==
    \E st \in {{}, {InsertRow(2, 1)}} :
        /\ store = st
        /\ nextId = 3
        /\ steps = 0
        /\ mounted = FALSE
        /\ trip = NoTrip
        /\ startDay = 0
        /\ endDay = 1
        /\ startIsoRef = 0
        /\ endIsoRef = 0
        /\ expenses = <<>>
        /\ loading = FALSE
        /\ loads = <<>>
        /\ channels = <<>>
        /\ channelRef = NoChannel
        /\ acks = {}
        /\ loadFailed = FALSE
        /\ wire = "iso"
        /\ ui = AppUi("casual", NoTrip)
        /\ categoriesTable = <<>>
        /\ tripsTable = {TripRow(1, CurrentUser, 0, 1)}
        /\ budgets = {}
        /\ categories = <<>>
        /\ grouped = <<>>
        /\ lendedTotal = 0
        /\ borrowedTotal = 0
        /\ totalBudget = 0
        /\ trips = <<>>
        /\ tripExpenses = <<>>
        /\ tabCategories = <<>>
        /\ message = ""
        /\ calls = <<>>
        /\ last = Step("mount", None)

appFrame == <<viewVars, expenses, loading, loads, channels, channelRef, acks, loadFailed, wire,
              dashVars>>

\* onTripStatusChange(count) of loadTripsWithSummary: the trips shown
TripCount == Len(TripCards(tripsTable, store, budgets, startDay, endDay))

\* 'Casual' or 'Back to Casual' is clicked: setView('casual'); setCurrentTrip(null).
\* The TripsTab, if mounted, is unmounted.
CasualTab ==
    /\ \A c \in DOMAIN calls : calls[c].op = "createTrip"
    /\ ui' = Merge(ui, [view |-> "casual", currentTrip |-> NoTrip])
    /\ trips' = <<>>
    /\ tripExpenses' = <<>>
    /\ tabCategories' = <<>>
    /\ message' = ""
    /\ calls' = [c \in DOMAIN calls |-> [calls[c] EXCEPT !.live = FALSE, !.solo = FALSE]]
    /\ last' = Step("casual", None)
    /\ UNCHANGED <<appFrame, store, nextId, steps, tableVars>>

\* 'Special' is clicked on the casual view: setView('trips'); the TripsTab
\* mounts and its effect loads the trips
SpecialTab ==
    /\ view = "casual"
    /\ ui' = Merge(ui, [view |-> "trips", hasTrips |-> TripCount > 0])
    /\ TripsReload(startDay, endDay)
    /\ message' = ""
    /\ last' = Step("special", None)
    /\ UNCHANGED <<appFrame, store, nextId, steps, tableVars, calls>>

\* createTrip up to `await supabase.from('trips').insert(...).select().single()`,
\* or its return when a field of the form is missing
CreateTrip(filled) ==
    /\ view = "trips"
    /\ steps < MaxSteps
    /\ CallIds \ DOMAIN calls # {}
    /\ steps' = steps + 1
    /\ IF filled
       THEN /\ message' = ""
            /\ calls' = Started([op |-> "createTrip", pc |-> "insert", live |-> TRUE,
                                 solo |-> calls = <<>>, data |-> NoTrip])
            /\ last' = Step("createTrip?", None)
       ELSE /\ message' = "Please fill all fields"
            /\ calls' = calls
            /\ last' = Step("createTrip", [sent |-> FALSE])
    /\ UNCHANGED <<appFrame, store, nextId, tableVars, trips, tripExpenses, tabCategories, ui>>

\* the insert of the trip is answered: on an error the message is set, else
\* onTripStatusChange(trips.length + 1) and `await loadTripsWithSummary()`
TripCreated(c, ok) ==
    /\ c \in DOMAIN calls
    /\ calls[c].op = "createTrip"
    /\ calls[c].pc = "insert"
    /\ IF ok
       THEN /\ tripsTable' = tripsTable \cup {TripRow(nextId, CurrentUser, 0, 1)}
            /\ nextId' = nextId + 1
            /\ ui' = Merge(ui, [hasTrips |-> TRUE])
            /\ calls' = [calls EXCEPT ![c].pc = "reload", ![c].data = nextId]
            /\ last' = Step("created", None)
            /\ UNCHANGED message
       ELSE /\ message' = IF calls[c].live THEN "error.message" ELSE message
            /\ calls' = Without(calls, c)
            /\ last' = Ended(calls[c], FALSE, NoAlert)
            /\ UNCHANGED <<tripsTable, nextId, ui>>
    /\ UNCHANGED <<appFrame, store, steps, categoriesTable, budgets, trips, tripExpenses,
                   tabCategories>>

\* loadTripsWithSummary has finished: onTripSelect(data), which is App's
\* setCurrentTrip
TripSelected(c) ==
    /\ c \in DOMAIN calls
    /\ calls[c].op = "createTrip"
    /\ calls[c].pc = "reload"
    /\ IF calls[c].live THEN TripsReload(startDay, endDay)
       ELSE UNCHANGED <<trips, tripExpenses, tabCategories>>
    /\ ui' = Merge(ui, [hasTrips |-> TripCount > 0, currentTrip |-> calls[c].data])
    /\ calls' = Without(calls, c)
    /\ last' = Ended(calls[c], TRUE, NoAlert)
    /\ UNCHANGED <<appFrame, store, nextId, steps, tableVars, message>>

\* the ExpenseInput of the selected trip is submitted: up to its insert
SubmitBoundTrip ==
    /\ BoundTrip # NoTrip
    /\ steps < MaxSteps
    /\ CallIds \ DOMAIN calls # {}
    /\ steps' = steps + 1
    /\ calls' = Started(TripCall("insertExpense", "insert", BoundTrip))
    /\ last' = Step("submit", [trip |-> BoundTrip, stored |-> BoundTrip \in StoredTrips])
    /\ UNCHANGED <<tripFrame, store, nextId, tableVars, tabVars>>

AppNext ==
    \/ CasualTab
    \/ SpecialTab
    \/ \E filled \in BOOLEAN : CreateTrip(filled)
    \/ \E c \in CallIds, ok \in BOOLEAN : TripCreated(c, ok)
    \/ \E c \in CallIds : TripSelected(c)
    \/ \E t \in AppTripIds : DeleteTrip(t)
    \/ \E c \in CallIds, ok \in BOOLEAN : DeleteStep(c, ok)
    \/ \E c \in CallIds : ReloadAfterDelete(c)
    \/ \E c \in CallIds : ClearMessage(c)
    \/ SubmitBoundTrip
    \/ \E c \in CallIds, ok \in BOOLEAN : InsertTripExpense(c, ok)

AppSpec == AppInit /\ [][AppNext]_allVars

\* C37: once deleteTrip has succeeded for a trip, the App's currentTrip does
\* not reference it: no ExpenseInput or Dashboard is bound to a trip that is
\* no longer stored, and no expense is submitted with its identifier.
C37_DeletedTripUnselected ==
    /\ currentTrip # NoTrip => currentTrip \in StoredTrips
    /\ BoundTrip # NoTrip => BoundTrip \in StoredTrips
    /\ last.op = "submit" => last.info.stored

\* C38: in every App state, view = 'casual' implies currentTrip = null,
\* however the tab switches interleave with the completion of createTrip.
C38_CasualHasNoTrip == view = "casual" => currentTrip = NoTrip

====
